---- MODULE Spec2Model ----
(***************************************************************************)
(* Verification model of the health-dashboard data preparation code:       *)
(*   - MentalHealthDataProcessor (process_mental_health.py): the scoring   *)
(*     of one row of the cleaned mood table (SpecScore);                   *)
(*   - HealthDataProcessor.join_dates and                                  *)
(*     WeightDataProcessor.wrangle_weight_data (process_data.py): the      *)
(*     daily date reconciliation (SpecDates);                              *)
(*   - WeightliftingDataProcessor (process_data.py): one-rep-max and the   *)
(*     derived strength metrics, and VolumeDataProcessor                   *)
(*     (perform_calculations.py): the daily volume series (SpecStrength);  *)
(*   - repeated runs of the weight derivation on the same records          *)
(*     (SpecRuns);                                                         *)
(*   - one call of calculate_score with any definition (SpecCall);         *)
(*   - reshape_to_tidy_format on a scored table (SpecTidy);                *)
(*   - the statements of main (main.py), each returning or raising         *)
(*     (SpecMain);                                                         *)
(*   - merge_data on the exported mood logs (SpecMerge) and                *)
(*     clean_merged_data on the merged table (SpecClean);                  *)
(*   - the eight calls of calculate_score on one table, in any order       *)
(*     (SpecOrder).                                                        *)
(*                                                                         *)
(* Numbers.  Factor values, transformed values and scores are float64 in   *)
(* the code.  The model keeps them as integers in fixed point: a factor    *)
(* value v stands for v / FixedPoint, a weight w for w / 2, a weighted     *)
(* contribution c for c / (2 * FixedPoint).  Every value the model feeds   *)
(* to x, x**2 and the weights of the four score definitions is exact in    *)
(* this representation (and in float64); the two irrational powers         *)
(* x**2.8675 and the anxiety/depression interaction are tabulated, rounded *)
(* to 1 / FixedPoint.  A missing value (NaN, None, NaT) is NaN.            *)
(***************************************************************************)
EXTENDS Integers, Sequences, FiniteSets, TLC

VARIABLES
    \* ---- mental health scoring (process_mental_health.py) ----
    stage,        \* position in wrangle_mental_health_data for the row
    date,         \* the row's date, as the integer YYYYMMDD
    note,         \* the entries of exceptional_days_conditions the note contains
    matched_only, \* the entries whose pattern matches the note, text absent
    row,          \* factor column -> value of the row (NaN when missing)
    scores,       \* score column -> score of the row, once computed
    temporary,    \* temporary column -> cell of the row, while it exists
    \* ---- date reconciliation (process_data.py) ----
    pc,           \* position in wrangle_weight_data
    health_data,  \* the caller's table of health records
    bodymass,     \* the BodyMass selection handed to join_dates
    today,        \* datetime.now().date(), as a day number
    joined,       \* the table join_dates returns
    weight_data,  \* the daily body-mass series
    error,        \* the exception that aborted the derivation, or "none"
    earlier_runs, \* what the earlier runs on the same records produced
    \* ---- strength metrics (process_data.py) ----
    wl_pc,        \* position in wrangle_weightlifting_data
    exercise_data,\* the cleaned strength log (one row per set)
    body_mass_by_date, \* the body-mass series joined onto the sets
    data,         \* the working table of wrangle_weightlifting_data
    volume_data,  \* the daily volume series of process_volume_data
    \* ---- the build ----
    copy_on_write,\* whether the pandas of the build is copy-on-write
    \* ---- one run of main (main.py) ----
    main_pc,      \* the statement of main that runs next
    fetched,      \* what fetch_icloud_data handed to main, table by table
    completed,    \* the derived tables main holds
    written,      \* the tables save_to_csv has written
    failed_at,    \* the statement whose exception ended the run, or "none"
    \* ---- one call of calculate_score (process_mental_health.py) ----
    call_pc,      \* "called", then "returned"
    call_args,    \* the arguments of the call
    returned_score, \* what the call returned
    \* ---- reshape_to_tidy_format (process_mental_health.py) ----
    tidy_pc,      \* "scored", then "tidy"
    scored_data,  \* the table of calculate_mental_health_metrics
    tidy_data,    \* the table reshape_to_tidy_format returns
    \* ---- the mood table (process_mental_health.py) ----
    mood_pc,      \* "fetched", "merged", then "cleaned"
    main_symptoms,   \* the fixed daily log
    custom_symptoms, \* the user's symptoms: ID and NAME
    custom_entries,  \* the custom log: ENTRY, SYMPTOM and VALUE
    timestamp_today, \* pd.Timestamp("today")
    combined_data,   \* the table merge_data returns
    cleaned_data     \* the table clean_merged_data returns

vars == <<stage, date, note, matched_only, row, scores, temporary,
          pc, health_data, bodymass, today, joined, weight_data, error,
          earlier_runs,
          wl_pc, exercise_data, body_mass_by_date, data, volume_data,
          copy_on_write, main_pc, fetched, completed, written, failed_at,
          call_pc, call_args, returned_score,
          tidy_pc, scored_data, tidy_data,
          mood_pc, main_symptoms, custom_symptoms, custom_entries,
          timestamp_today, combined_data, cleaned_data>>

score_vars == <<stage, date, note, matched_only, row, scores, temporary>>
dates_vars ==
    <<pc, health_data, bodymass, today, joined, weight_data, error,
      earlier_runs>>
strength_vars ==
    <<wl_pc, exercise_data, body_mass_by_date, data, volume_data>>
build_vars == <<copy_on_write>>
run_vars == <<main_pc, fetched, completed, written, failed_at>>
call_vars == <<call_pc, call_args, returned_score>>
tidy_vars == <<tidy_pc, scored_data, tidy_data>>
mood_vars ==
    <<mood_pc, main_symptoms, custom_symptoms, custom_entries,
      timestamp_today, combined_data, cleaned_data>>

\* What the steps of one derivation leave alone: the other derivations'
\* variables and the build.
outside_score ==
    <<dates_vars, strength_vars, build_vars, run_vars, call_vars, tidy_vars,
      mood_vars>>
outside_dates ==
    <<score_vars, strength_vars, build_vars, run_vars, call_vars, tidy_vars,
      mood_vars>>
outside_strength ==
    <<score_vars, dates_vars, build_vars, run_vars, call_vars, tidy_vars,
      mood_vars>>
outside_run ==
    <<score_vars, dates_vars, strength_vars, build_vars, call_vars, tidy_vars,
      mood_vars>>
outside_call ==
    <<score_vars, dates_vars, strength_vars, build_vars, run_vars, tidy_vars,
      mood_vars>>
outside_mood ==
    <<score_vars, dates_vars, strength_vars, build_vars, run_vars, call_vars,
      tidy_vars>>
outside_tidy ==
    <<score_vars, dates_vars, strength_vars, build_vars, run_vars, call_vars,
      mood_vars>>

----------------------------------------------------------------------------
(* Shared helpers *)

NaN == -1

FixedPoint == 1000

Range(s) == {s[i] : i \in DOMAIN s}

RECURSIVE SumSeq(_)
SumSeq(s) == IF s = <<>> THEN 0 ELSE Head(s) + SumSeq(Tail(s))

notna(x) == x # NaN

----------------------------------------------------------------------------
(* Mental health scoring: process_mental_health.py *)

\* The override scores of exceptional_days_conditions, in the order of the
\* list; entry i of the list is (substring i, override_scores[i]).
exceptional_days_conditions ==
    << 4500, 5000, 4000, 5000, 4500, 5000, 4000, 4500, 4000, 4500,
       4000, 5000, 4000, 4000, 4000, 4000, 4000, 4000, 4500, 4000,
       4000, 4500, 4500, 4000, 4000, 4500, 4000, 4500, 4000, 4000,
       4000, 4000, 4500, 4500, 4500, 4500, 4000, 4500, 4500, 4000,
       4000, 4000, 4500, 4000, 4000, 4000, 4500, 4500, 5000, 4000,
       4000, 4500, 4500, 4500, 4000, 4000, 4000, 4500, 4500, 4000,
       4000, 4000, 4000, 4000, 4500, 4000, 4500, 4500, 4500, 4000,
       4000, 4000, 4000, 4000, 4500, 4000, 4000, 4500, 4000, 4000,
       4000, 4000, 4000, 4500, 4000, 4500, 4000, 4500, 4000 >>

\* The entries of exceptional_days_conditions whose text holds a character
\* that is special in a regular expression: entry 83,
\* "Abba-St. Patrick's day club night", with its ".".
regex_entries == {83}

\* data["note"].str.contains(note, na=False), with the default regex=True:
\* entry i is searched as a regular expression.  It matches a note that
\* contains its text; an entry with a "." also matches a note that has
\* another character in the place of the ".".
str_contains(contained, other_matches, i) ==
    i \in contained \/ (i \in regex_entries /\ i \in other_matches)

\* for note, score in exceptional_days_conditions:
\*     data.loc[data["note"].str.contains(note, na=False), "elevated"] = score
\* The note of the row is the set of list entries whose text it contains; each
\* matching entry assigns in turn, so the last one of the list stays.
apply_conditions(contained, elevated) ==
    LET hits == {i \in DOMAIN exceptional_days_conditions :
                    str_contains(contained, matched_only, i)}
    IN  IF hits = {} THEN elevated
        ELSE exceptional_days_conditions[
                 CHOOSE i \in hits : \A j \in hits : j <= i]

\* lambda x: x  /  lambda x: x**2  /  lambda x: x**2.8675
pow28675(x) ==
    CASE x = 0    -> 0
      [] x = 1000 -> 1000
      [] x = 2000 -> 7298
      [] x = 3000 -> 23342
      [] x = 4000 -> 53261
      [] x = 4500 -> 74660
      [] x = 5000 -> 100994

transformation(kind, x) ==
    CASE kind = "identity" -> x
      [] kind = "square"   -> (x * x) \div FixedPoint
      [] kind = "pow28675" -> pow28675(x)

\* 0.5 * (anxiety**6.6582 + depressed**6.6582) ** 0.5 on non-zero, non-missing
\* inputs, rounded to 1 / FixedPoint.
interaction_value(a, d) ==
    LET lo == IF a <= d THEN a ELSE d
        hi == IF a <= d THEN d ELSE a
    IN  CASE lo = 1000 /\ hi = 1000 -> 707
          [] lo = 1000 /\ hi = 2000 -> 5050
          [] lo = 1000 /\ hi = 3000 -> 19386
          [] lo = 1000 /\ hi = 4000 -> 50502
          [] lo = 2000 /\ hi = 2000 -> 7106
          [] lo = 2000 /\ hi = 3000 -> 20021
          [] lo = 2000 /\ hi = 4000 -> 50749
          [] lo = 3000 /\ hi = 3000 -> 27407
          [] lo = 3000 /\ hi = 4000 -> 54091
          [] lo = 4000 /\ hi = 4000 -> 71417

\* A variant of anxiety_depression_interaction that takes a 0 as the number
\* 0: the interaction of 0 with anything is then a number.
interaction_with_zero_as_number(r) ==
    IF r["anxiety"] = NaN \/ r["depressed"] = NaN THEN NaN
    ELSE IF r["anxiety"] = 0 \/ r["depressed"] = 0 THEN 0
    ELSE interaction_value(r["anxiety"], r["depressed"])

\* x**6.6582 if x != 0 else np.nan (NaN ** 6.6582 is NaN), then the sum and
\* the root, which are NaN as soon as one operand is.
anxiety_depression_interaction(r) ==
    IF r["anxiety"] = 0 \/ r["anxiety"] = NaN
       \/ r["depressed"] = 0 \/ r["depressed"] = NaN
    THEN NaN
    ELSE interaction_value(r["anxiety"], r["depressed"])

\* One entry of a vars_info dictionary:
\* name: (min_val, max_val, weight, transformation); weight is in halves.
V(name, lo, hi, w2, t) ==
    [var |-> name, min_val |-> lo, max_val |-> hi, weight |-> w2,
     transformation |-> t]

mental_health_vars ==
    << V("elevated", 1000, 4000, 2, "pow28675"),
       V("anxiety_depression_interaction", 1000, 4000, -2, "identity") >>

subjective_well_being_vars ==
    << V("elevated", 1000, 4000, 2, "square"),
       V("energy", 1000, 4000, 2, "square"),
       V("fun", 1000, 4000, 1, "square"),
       V("dog_interaction", 1000, 2000, 8, "identity"),
       V("anxiety", 1000, 4000, -2, "square"),
       V("conflict", 1000, 2000, -8, "identity"),
       V("depressed", 1000, 4000, -2, "square") >>

life_satisfaction_vars ==
    << V("self-acceptance", 1000, 4000, 2, "identity"),
       V("liberty", 1000, 4000, 4, "identity"),
       V("value_alignment", 1000, 4000, 4, "identity"),
       V("health", 1000, 4000, 4, "identity"),
       V("security", 1000, 4000, 4, "identity"),
       V("relationship_satisfaction", 1000, 4000, 4, "identity"),
       V("integrity", 1000, 4000, 4, "identity"),
       V("optimism", 1000, 4000, 2, "identity"),
       V("shame", 1000, 4000, -2, "square"),
       V("suicidality", 1000, 2000, -8, "identity") >>

work_satisfaction_vars ==
    << V("energy", 1000, 4000, 2, "identity"),
       V("mental_clarity", 1000, 4000, 4, "square"),
       V("value_alignment", 1000, 4000, 2, "square"),
       V("security", 1000, 4000, 2, "identity"),
       V("relationship_satisfaction", 1000, 4000, 2, "identity"),
       V("liberty", 1000, 4000, 4, "identity"),
       V("achievement", 1000, 4000, 8, "identity"),
       V("learning", 1000, 4000, 1, "identity"),
       V("work_depth", 1000, 4000, 1, "square"),
       V("professional_mastery", 1000, 4000, 4, "identity") >>

\* exclude_dates=[("2000-01-01", "2021-12-01"), ("2023-06-16", "2023-09-20")]
exclude_dates == << <<20000101, 20211201>>, <<20230616, 20230920>> >>

main_vars == {"elevated", "depressed", "anxiety"}

\* Series.between(start, end): both ends included.
between(d, start_date, end_date) == start_date <= d /\ d <= end_date

\* A score: undefined (np.nan), or the number num / den.
nan_score == [nan |-> TRUE, num |-> 0, den |-> 1]
number(n, d) == [nan |-> FALSE, num |-> n, den |-> d]

\* A variant of min_scores that takes min_val whatever the sign of the weight.
min_scores_unoriented(vars_info) ==
    [i \in DOMAIN vars_info |->
        transformation(vars_info[i].transformation, vars_info[i].min_val)
            * vars_info[i].weight]

\* transformation(min_val) * weight if weight > 0
\*     else transformation(max_val) * weight
min_scores(vars_info) ==
    [i \in DOMAIN vars_info |->
        IF vars_info[i].weight > 0
        THEN transformation(vars_info[i].transformation, vars_info[i].min_val)
                 * vars_info[i].weight
        ELSE transformation(vars_info[i].transformation, vars_info[i].max_val)
                 * vars_info[i].weight]

max_scores(vars_info) ==
    [i \in DOMAIN vars_info |->
        IF vars_info[i].weight > 0
        THEN transformation(vars_info[i].transformation, vars_info[i].max_val)
                 * vars_info[i].weight
        ELSE transformation(vars_info[i].transformation, vars_info[i].min_val)
                 * vars_info[i].weight]

\* available_factors = data[[var for var in vars_info]].notna().sum(axis=1)
available_factors(r, vars_info) ==
    Cardinality({i \in DOMAIN vars_info : notna(r[vars_info[i].var])})

\* A variant of cutoff_check that asks for at most the cutoff proportion.
cutoff_check_at_most(r, vars_info, cutoff_proportion) ==
    2 * available_factors(r, vars_info) <= cutoff_proportion * Len(vars_info)

\* available_factors / total_factors >= cutoff_proportion, with the cutoff
\* in halves (2 for 1, 1 for 0.5).
cutoff_check(r, vars_info, cutoff_proportion) ==
    2 * available_factors(r, vars_info) >= cutoff_proportion * Len(vars_info)

\* A variant of main_zero_check that is false of a definition with no fixed
\* factor.
main_zero_check_with_a_fixed_factor(r, vars_info) ==
    /\ \E i \in DOMAIN vars_info : vars_info[i].var \in main_vars
    /\ \A i \in DOMAIN vars_info :
          vars_info[i].var \in main_vars => r[vars_info[i].var] = 0

\* data[[var for var in vars_info if var in main_vars]].eq(0).all(axis=1):
\* true of every row when the definition has no such column.
main_zero_check(r, vars_info) ==
    \A i \in DOMAIN vars_info :
        vars_info[i].var \in main_vars => r[vars_info[i].var] = 0

custom_one_check(r, vars_info) ==
    \A i \in DOMAIN vars_info :
        vars_info[i].var \notin main_vars => r[vars_info[i].var] = FixedPoint

uniform_data(r, vars_info) ==
    main_zero_check(r, vars_info) /\ custom_one_check(r, vars_info)

\* A variant of valid_rows without the uniform data check.
valid_rows_cutoff_only(r, d, vars_info, cutoff_proportion) ==
    cutoff_check(r, vars_info, cutoff_proportion)

\* The valid_rows of the row as calculate_score finally holds it.  The value
\* built from exclude_dates (valid_rows &= ~exclusion) is replaced, not
\* refined, by the assignment that follows the uniform data check.
valid_rows(r, d, vars_info, cutoff_proportion) ==
    LET after_exclusion ==
            \A k \in DOMAIN exclude_dates :
                ~between(d, exclude_dates[k][1], exclude_dates[k][2])
        reassigned ==
            cutoff_check(r, vars_info, cutoff_proportion)
            /\ ~uniform_data(r, vars_info)
    IN  reassigned

\* A variant of score_sum in which a missing factor counts as its min_val.
score_sum_missing_as_min_val(r, vars_info) ==
    SumSeq([i \in DOMAIN vars_info |->
        transformation(vars_info[i].transformation,
                       IF notna(r[vars_info[i].var]) THEN r[vars_info[i].var]
                       ELSE vars_info[i].min_val)
            * vars_info[i].weight])

\* transformed_<var>: transformation(x) * weight if pd.notna(x) else np.nan,
\* then fillna(0); score_sum is their sum.
score_sum(r, vars_info) ==
    SumSeq([i \in DOMAIN vars_info |->
        IF notna(r[vars_info[i].var])
        THEN transformation(vars_info[i].transformation, r[vars_info[i].var])
                 * vars_info[i].weight
        ELSE 0])

\* (score_sum - min_possible_score) / (max_possible_score - min_possible_score)
\*     * 200 - 100
rescaled(raw, vars_info) ==
    LET min_possible_score == SumSeq(min_scores(vars_info))
        max_possible_score == SumSeq(max_scores(vars_info))
        span == max_possible_score - min_possible_score
    IN  number((raw - min_possible_score) * 200 - 100 * span, span)

calculate_score(r, d, vars_info, cutoff_proportion, rescale) ==
    LET score == IF rescale THEN rescaled(score_sum(r, vars_info), vars_info)
                 ELSE number(score_sum(r, vars_info), 2 * FixedPoint)
    IN  IF valid_rows(r, d, vars_info, cutoff_proportion)
        THEN score ELSE nan_score

\* The four categories, each with its definition and its rescale argument.
categories ==
    << [name |-> "mental_health", vars_info |-> mental_health_vars,
        rescale |-> FALSE],
       [name |-> "subjective_well_being",
        vars_info |-> subjective_well_being_vars, rescale |-> TRUE],
       [name |-> "life_satisfaction", vars_info |-> life_satisfaction_vars,
        rescale |-> TRUE],
       [name |-> "work_satisfaction", vars_info |-> work_satisfaction_vars,
        rescale |-> TRUE] >>

category_names == {categories[i].name : i \in DOMAIN categories}

category(n) == CHOOSE c \in Range(categories) : c.name = n

\* The eight score columns: <name> with cutoff 1 and <name>_partial with 0.5.
score_columns == [name : category_names, cutoff_proportion : {2, 1}]

----------------------------------------------------------------------------
(* The rows the scoring is checked on *)

\* The factor columns the four definitions read from the cleaned table, in
\* the order in which the columns enter the log.
factor_columns ==
    << "elevated", "anxiety", "depressed", "energy", "fun", "dog_interaction",
       "conflict", "self-acceptance", "liberty", "value_alignment", "health",
       "security", "relationship_satisfaction", "integrity", "optimism",
       "shame", "suicidality", "mental_clarity", "achievement", "learning",
       "work_depth", "professional_mastery" >>

Factors == Range(factor_columns)

\* Values of a logged factor: missing, 0, 1, 2 and 4.
FactorValues == {NaN, 0, 1000, 2000, 4000}

\* 1999-12-31, then the two excluded ranges' ends and the days around them.
DateCases ==
    {19991231, 20000101, 20211201, 20211202, 20230616, 20230920, 20230921}

\* Notes: no entry of the list contained; entry 3 (4.0); entry 1 (4.5);
\* entries 1 and 2 (4.5, then 5.0).
NoteCases == {{}, {3}, {1}, {1, 2}}

\* The note has entry 83's text with another character for its ".", or not.
NearMissCases == {{}, {83}}

UniformRow(v) == [f \in Factors |-> v]

\* The row of a definition's extremes: each of its factors at max_val when
\* favourable is the sign of its weight, else at min_val; the factors it does
\* not read at 1.
ExtremeRow(vars_info, favourable) ==
    [f \in Factors |->
        IF \E i \in DOMAIN vars_info : vars_info[i].var = f
        THEN LET e == CHOOSE e \in Range(vars_info) : e.var = f
             IN  IF (e.weight > 0) = favourable THEN e.max_val ELSE e.min_val
        ELSE FixedPoint]

\* The un-filled entry: the fixed log's factors 0, the custom factors 1.
PlaceholderRow == [f \in Factors |-> IF f \in main_vars THEN 0 ELSE FixedPoint]

\* Only the first k columns are tracked yet: the others are still missing.
UntrackedRow(k) ==
    [f \in Factors |->
        IF \E i \in 1..k : factor_columns[i] = f THEN 2000 ELSE NaN]

rescaled_definitions ==
    {subjective_well_being_vars, life_satisfaction_vars, work_satisfaction_vars}

BaseRows ==
    {UniformRow(v) : v \in FactorValues}
    \cup {ExtremeRow(vi, fav) : vi \in rescaled_definitions, fav \in BOOLEAN}
    \cup {PlaceholderRow}

\* A base row, as it is or with one factor logged differently.
InputRows ==
    BaseRows
    \cup {[b EXCEPT ![f] = v] : b \in BaseRows, f \in Factors, v \in FactorValues}
    \cup {UntrackedRow(k) : k \in 0..Len(factor_columns)}

no_scores == [c \in {} |-> nan_score]

DatesIdle ==
    /\ pc = "idle" /\ health_data = <<>> /\ bodymass = <<>> /\ today = 0
    /\ joined = <<>> /\ weight_data = <<>> /\ error = "none"
    /\ earlier_runs = <<>>

StrengthIdle ==
    /\ wl_pc = "idle" /\ exercise_data = <<>> /\ body_mass_by_date = <<>>
    /\ data = <<>> /\ volume_data = <<>>

ScoreIdle ==
    /\ stage = "idle" /\ date = 0 /\ note = {} /\ matched_only = {}
    /\ row = <<>>
    /\ scores = no_scores /\ temporary = <<>>

RunIdle ==
    /\ main_pc = "idle" /\ fetched = <<>> /\ completed = {}
    /\ written = {} /\ failed_at = "none"

CallIdle == call_pc = "idle" /\ call_args = <<>>
    /\ returned_score = nan_score

TidyIdle == tidy_pc = "idle" /\ scored_data = <<>> /\ tidy_data = <<>>

MoodIdle ==
    /\ mood_pc = "idle" /\ main_symptoms = <<>> /\ custom_symptoms = <<>>
    /\ custom_entries = <<>> /\ timestamp_today = <<>>
    /\ combined_data = <<>> /\ cleaned_data = <<>>

\* The row after merge_data and clean_merged_data.
InitScore ==
    /\ stage = "cleaned"
    /\ date \in DateCases
    /\ note \in NoteCases
    /\ matched_only \in NearMissCases
    /\ row \in InputRows
    /\ scores = no_scores
    /\ temporary = <<>>
    /\ DatesIdle /\ StrengthIdle /\ RunIdle /\ CallIdle /\ TidyIdle
    /\ MoodIdle
    /\ copy_on_write = FALSE

\* add_scores_to_exceptional_days, on the row.
add_scores_to_exceptional_days ==
    /\ stage = "cleaned"
    /\ row' = [row EXCEPT !["elevated"] = apply_conditions(note, @)]
    /\ stage' = "annotated"
    /\ UNCHANGED <<date, note, matched_only, scores, temporary>>
    /\ UNCHANGED outside_score

\* calculate_mental_health_metrics, on the row: the interaction column, then
\* the eight calls of calculate_score.
calculate_mental_health_metrics ==
    /\ stage = "annotated"
    /\ LET r == ("anxiety_depression_interaction"
                    :> anxiety_depression_interaction(row)) @@ row
       IN  /\ row' = r
           /\ scores' = [c \in score_columns |->
                  calculate_score(r, date, category(c.name).vars_info,
                                  c.cutoff_proportion,
                                  category(c.name).rescale)]
    /\ stage' = "scored"
    /\ UNCHANGED <<date, note, matched_only, temporary>>
    /\ UNCHANGED outside_score

NextScore == add_scores_to_exceptional_days \/ calculate_mental_health_metrics

SpecScore == InitScore /\ [][NextScore]_vars

----------------------------------------------------------------------------
(* One call of calculate_score on a row, with any definition *)

\* Score definitions whose theoretical minimum and maximum coincide: weights
\* of 0, or min_val equal to max_val.
malformed_definitions ==
    { << V("elevated", 1000, 4000, 0, "square") >>,
      << V("energy", 1000, 4000, 0, "identity"),
         V("fun", 1000, 4000, 0, "square") >>,
      << V("energy", 2000, 2000, 2, "identity") >>,
      << V("energy", 2000, 2000, 2, "identity"),
         V("anxiety", 4000, 4000, -2, "square") >> }

definitions ==
    {categories[i].vars_info : i \in DOMAIN categories}
    \cup malformed_definitions

\* The row with its interaction column, as calculate_mental_health_metrics
\* hands it to calculate_score.
with_interaction(r) ==
    ("anxiety_depression_interaction" :> anxiety_depression_interaction(r))
        @@ r

InitCall ==
    /\ call_pc = "called"
    /\ call_args \in [data : {with_interaction(r) : r \in InputRows},
                      date : {20211201, 20211202},
                      vars_info : definitions,
                      cutoff_proportion : {2, 1},
                      rescale : BOOLEAN]
    /\ returned_score = nan_score
    /\ ScoreIdle /\ DatesIdle /\ StrengthIdle /\ RunIdle /\ TidyIdle
    /\ MoodIdle
    /\ copy_on_write = FALSE

\* The call runs to its return statement: calculate_score has no raise and
\* no check of its definition, and the division of a Series by 0 raises
\* nothing.
calculate_score_returns ==
    /\ call_pc = "called"
    /\ returned_score' =
           calculate_score(call_args.data, call_args.date,
                           call_args.vars_info, call_args.cutoff_proportion,
                           call_args.rescale)
    /\ call_pc' = "returned"
    /\ UNCHANGED call_args
    /\ UNCHANGED outside_call

NextCall == calculate_score_returns

SpecCall == InitCall /\ [][NextCall]_vars

\* max_possible_score == min_possible_score
Malformed(vars_info) ==
    SumSeq(max_scores(vars_info)) = SumSeq(min_scores(vars_info))

\* C18: a call of calculate_score with rescale=True and a definition whose
\* theoretical minimum and maximum are equal fails with an error: it never
\* returns a score.
C18_MalformedDefinition ==
    (call_pc # "called" /\ call_args.rescale
        /\ Malformed(call_args.vars_info))
    => call_pc = "raised"

\* What the call returns instead: a quotient by 0 (inf or NaN in float64) on
\* a valid row, NaN on the others.
C18_SilentQuotient ==
    (call_pc = "returned" /\ call_args.rescale
        /\ Malformed(call_args.vars_info))
    => (returned_score.nan \/ returned_score.den = 0)

\* The factors of a definition that the row holds (non-null).
Held(r, vars_info) == {i \in DOMAIN vars_info : notna(r[vars_info[i].var])}

\* The sum of transform(value) * weight over a set of factors of a
\* definition.
RECURSIVE WeightedSum(_, _, _)
WeightedSum(r, vars_info, factors) ==
    IF factors = {} THEN 0
    ELSE LET i == CHOOSE i \in factors : TRUE
             x == r[vars_info[i].var]
             t == CASE vars_info[i].transformation = "identity" -> x
                    [] vars_info[i].transformation = "square" ->
                           (x * x) \div FixedPoint
                    [] vars_info[i].transformation = "pow28675" ->
                           pow28675(x)
         IN  t * vars_info[i].weight
                 + WeightedSum(r, vars_info, factors \ {i})

ValidRow ==
    valid_rows(call_args.data, call_args.date, call_args.vars_info,
               call_args.cutoff_proportion)

\* C20: on a valid row, a call with rescale=False returns the raw score: the
\* sum of transform(value) * weight over the factors of the definition the
\* row holds, a missing factor adding 0.
C20_RawScore ==
    (call_pc = "returned" /\ ~call_args.rescale /\ ValidRow)
    => returned_score =
           number(WeightedSum(call_args.data, call_args.vars_info,
                              Held(call_args.data, call_args.vars_info)),
                  2 * FixedPoint)

\* A valid row of the mental_health score under the half cutoff, with its
\* interaction factor missing: the raw score is the elevated term alone.
C20_Witness ==
    /\ call_pc = "returned" /\ ~call_args.rescale /\ ValidRow
    /\ call_args.vars_info = mental_health_vars
    /\ call_args.cutoff_proportion = 1
    /\ call_args.data["anxiety_depression_interaction"] = NaN
    /\ call_args.data["elevated"] = 2000
    /\ returned_score = number(2 * 7298, 2 * FixedPoint)

----------------------------------------------------------------------------
(* Properties of the scoring (checked under SpecScore) *)

Scored == stage = "scored"

InExcludedRange(d) ==
    (20000101 <= d /\ d <= 20211201) \/ (20230616 <= d /\ d <= 20230920)

Undefined(c) == scores[c].nan

\* The score of column c is the number n.
ScoreIs(c, n) == ~scores[c].nan /\ scores[c].num = n * scores[c].den

Present(vars_info) ==
    Cardinality({i \in DOMAIN vars_info : row[vars_info[i].var] # NaN})

\* Every fixed-log factor of the definition is 0 and every other one is 1.
Degenerate(vars_info) ==
    \A i \in DOMAIN vars_info :
        row[vars_info[i].var] =
            (IF vars_info[i].var \in {"elevated", "depressed", "anxiety"}
             THEN 0 ELSE FixedPoint)

\* Every factor of the definition is at the end of its range that raises
\* (favourable) or lowers (not favourable) the score.
AtExtreme(vars_info, favourable) ==
    \A i \in DOMAIN vars_info :
        row[vars_info[i].var] =
            (IF (vars_info[i].weight > 0) = favourable
             THEN vars_info[i].max_val ELSE vars_info[i].min_val)

RescaledColumns == {c \in score_columns : category(c.name).rescale}

\* C1 (as claimed): a row whose date lies in an excluded range has every one
\* of its eight scores undefined, whatever its factors.
C1_ExclusionPrecedence ==
    (Scored /\ InExcludedRange(date)) => \A c \in score_columns : Undefined(c)

\* C2 (as claimed): outside the excluded ranges, a row with every factor of a
\* rescaled category at its favourable end scores exactly 100 in it, and one
\* with every factor at its unfavourable end scores exactly -100.
C2_RescalingBoundsAsClaimed ==
    (Scored /\ ~InExcludedRange(date)) =>
        \A c \in RescaledColumns :
            /\ AtExtreme(category(c.name).vars_info, TRUE) => ScoreIs(c, 100)
            /\ AtExtreme(category(c.name).vars_info, FALSE) => ScoreIs(c, -100)

\* C2 (amended): outside the excluded ranges, the favourable row of each
\* rescaled category scores exactly 100; the unfavourable row scores exactly
\* -100 in subjective_well_being and life_satisfaction, and in
\* work_satisfaction, where it is the row of ones, the score is undefined.
C2_RescalingBounds ==
    (Scored /\ ~InExcludedRange(date)) =>
        \A c \in RescaledColumns :
            /\ AtExtreme(category(c.name).vars_info, TRUE) => ScoreIs(c, 100)
            /\ AtExtreme(category(c.name).vars_info, FALSE) =>
                   IF c.name = "work_satisfaction"
                   THEN Undefined(c) ELSE ScoreIs(c, -100)

C2_Witness ==
    /\ Scored /\ ~InExcludedRange(date)
    /\ AtExtreme(subjective_well_being_vars, TRUE)
    /\ ScoreIs([name |-> "subjective_well_being", cutoff_proportion |-> 2], 100)

\* C3 (as claimed): every defined score of a rescaled category, under either
\* cutoff, lies in [-100, 100].
C3_RescaledRange ==
    Scored =>
        \A c \in RescaledColumns :
            ~Undefined(c) =>
                /\ -100 * scores[c].den <= scores[c].num
                /\ scores[c].num <= 100 * scores[c].den

\* C4: under either cutoff and for each of the four definitions, a row whose
\* fixed-log factors of the definition are all 0 and whose other factors of
\* the definition are all 1 has an undefined score.
C4_DegenerateRow ==
    Scored =>
        \A c \in score_columns :
            Degenerate(category(c.name).vars_info) => Undefined(c)

C4_Witness ==
    /\ Scored
    /\ Degenerate(subjective_well_being_vars)
    /\ Present(subjective_well_being_vars) = Len(subjective_well_being_vars)
    /\ Undefined([name |-> "subjective_well_being", cutoff_proportion |-> 1])

\* C5 (as claimed): a score is defined only for a row that has the cutoff's
\* share of the definition's factors and passes the other validity
\* conditions (not in an excluded range, not degenerate); every other row's
\* score is undefined.
C5_CompletenessCutoff ==
    Scored =>
        \A c \in score_columns :
            ~Undefined(c) =>
                /\ 2 * Present(category(c.name).vars_info)
                       >= c.cutoff_proportion * Len(category(c.name).vars_info)
                /\ ~Degenerate(category(c.name).vars_info)
                /\ ~InExcludedRange(date)

\* The part of C5 that the code does keep: a defined score implies the
\* cutoff's share of factors and a non-degenerate row.
C5_CutoffPart ==
    Scored =>
        \A c \in score_columns :
            ~Undefined(c) =>
                /\ 2 * Present(category(c.name).vars_info)
                       >= c.cutoff_proportion * Len(category(c.name).vars_info)
                /\ ~Degenerate(category(c.name).vars_info)

----------------------------------------------------------------------------
(* Date reconciliation: HealthDataProcessor.join_dates and
   WeightDataProcessor.wrangle_weight_data (process_data.py) *)

\* Observations fall on the days 1..MaxDay; the run's today is one of the
\* days 1..MaxDay + 1.  A table of health records has at most MaxRecords rows.
MaxDay == 3
MaxRecords == 2

\* A float64 cell of the value column: the rational n / d, or NaN (d = 0).
nan_value == [n |-> 0, d |-> 0]
rational(n, d) == [n |-> n, d |-> d]
isna(x) == x.d = 0

RECURSIVE gcd(_, _)
gcd(a, b) == IF b = 0 THEN a ELSE gcd(b, a % b)

\* x < y on float64 cells that are not NaN.
less(x, y) ==
    LET g == gcd(x.d, y.d)
    IN  x.n * (y.d \div g) < y.n * (x.d \div g)

\* A cell of a date column: a datetime.date (dtype object) or a Timestamp at
\* midnight (dtype datetime64[ns]), of day number day.
a_date(day) == [dtype |-> "date", day |-> day]
a_timestamp(day) == [dtype |-> "Timestamp", day |-> day]

\* pd.to_datetime on a date column.
to_datetime(col_date) == a_timestamp(col_date.day)

\* Series.min() of the date column: NaN on an empty column.
min_date(table) ==
    IF table = <<>> THEN NaN
    ELSE CHOOSE m \in {table[i].date.day : i \in DOMAIN table} :
             \A i \in DOMAIN table : m <= table[i].date.day

\* A variant of date_range_raises in which the range is built all the same.
date_range_never_raises(start) == FALSE

\* pd.date_range raises ValueError ("Neither `start` nor `end` can be NaT")
\* when its start is missing.
date_range_raises(start) == start = NaN

\* pd.date_range(min_date, max_date, freq="D"): empty when max_date is before
\* min_date.
date_range(start, end) == [i \in 1..(end - start + 1) |-> a_timestamp(start + i - 1)]

\* A variant of date_seq that ends on the last observed date.
date_seq_to_last_observation(table, now) ==
    LET days == {table[i].date.day : i \in DOMAIN table}
        last == CHOOSE m \in days : \A d \in days : d <= m
    IN  date_range(min_date(table), last)

\* A variant of date_seq that resumes from the day of the run before, when
\* there was one.
date_seq_from_last_run(table, now) ==
    IF earlier_runs = <<>> THEN date_range(min_date(table), now)
    ELSE date_range(earlier_runs[Len(earlier_runs)].today, now)

\* date_seq of join_dates: from the first observed date to datetime.now().
date_seq(table, now) == date_range(min_date(table), now)

RECURSIVE flatten(_)
flatten(ss) == IF ss = <<>> THEN <<>> ELSE Head(ss) \o flatten(Tail(ss))

\* table[mask]: the rows whose index is in the mask, in their order.
SelectRows(table, mask) ==
    LET idx == {i \in DOMAIN table : i \in mask}
        nth(k) == CHOOSE i \in idx : Cardinality({j \in idx : j < i}) = k - 1
    IN  [k \in 1..Cardinality(idx) |-> table[nth(k)]]

\* pd.merge(date_seq, data, how="left", on="date"): for each date of the
\* sequence, in order, the rows of data with that date, in their order, or
\* one row of missing values when data has none.
merge_left(seq, table) ==
    flatten([i \in DOMAIN seq |->
        LET same == {j \in DOMAIN table : table[j].date = seq[i]}
            hits == SelectRows(table, same)
        IN  IF hits = <<>> THEN << [date |-> seq[i], value |-> nan_value] >>
            ELSE hits])

\* Series.interpolate(): linear in the row position between the nearest
\* values on both sides; after the last value, that value; before the first
\* value, still missing.
interpolate(values) ==
    [i \in DOMAIN values |->
        IF ~isna(values[i]) THEN values[i]
        ELSE LET before == {j \in DOMAIN values : j < i /\ ~isna(values[j])}
                 after == {j \in DOMAIN values : j > i /\ ~isna(values[j])}
             IN  IF before = {} THEN nan_value
                 ELSE LET a == CHOOSE j \in before : \A k \in before : k <= j
                      IN  IF after = {} THEN values[a]
                          ELSE LET b == CHOOSE j \in after :
                                            \A k \in after : j <= k
                               IN  rational(
                                     values[a].n * (b - a)
                                       + (values[b].n - values[a].n) * (i - a),
                                     b - a)]

\* value * 2.20462
to_pounds(x) ==
    IF isna(x) THEN nan_value ELSE rational(x.n * 220462, x.d * 100000)

\* min of a group's cells, missing ones skipped; NaN when all are missing.
group_min(cells) ==
    LET present == {c \in cells : ~isna(c)}
    IN  IF present = {} THEN nan_value
        ELSE CHOOSE m \in present : \A c \in present : ~less(c, m)

RECURSIVE sorted_days(_)
sorted_days(days) ==
    IF days = {} THEN <<>>
    ELSE LET m == CHOOSE m \in days : \A x \in days : m <= x
         IN  <<m>> \o sorted_days(days \ {m})

\* data.groupby("date").agg({"body_mass": "min"}).reset_index(), then
\* pd.to_datetime(data["date"]).dt.date
min_body_mass_per_date(table) ==
    LET days == sorted_days({table[i].date.day : i \in DOMAIN table})
    IN  [k \in DOMAIN days |->
            [date |-> a_date(days[k]),
             body_mass |-> group_min({table[i].body_mass :
                               i \in {j \in DOMAIN table :
                                         table[j].date.day = days[k]}})]]

RecordTypes == {"BodyMass", "StepCount"}
Kilograms == {nan_value, rational(60, 1), rational(62, 1)}

HealthRecords ==
    [type : RecordTypes, date : {a_date(d) : d \in 1..MaxDay}, value : Kilograms]

HealthTables == UNION {[1..n -> HealthRecords] : n \in 0..MaxRecords}

\* The cleaned health records handed to wrangle_weight_data, and the clock.
InitDates ==
    /\ pc = "start"
    /\ health_data \in HealthTables
    /\ today \in 1..(MaxDay + 1)
    /\ bodymass = <<>>
    /\ joined = <<>>
    /\ weight_data = <<>>
    /\ error = "none"
    /\ earlier_runs = <<>>
    /\ copy_on_write \in BOOLEAN
    /\ ScoreIdle /\ StrengthIdle /\ RunIdle /\ CallIdle /\ TidyIdle
    /\ MoodIdle

\* data = data[data["type"] == "BodyMass"].loc[:, ["date", "value"]]
select_body_mass ==
    /\ pc = "start"
    /\ LET is_body_mass == {j \in DOMAIN health_data :
                                health_data[j].type = "BodyMass"}
           picked == SelectRows(health_data, is_body_mass)
       IN  bodymass' = [i \in DOMAIN picked |->
                           [date |-> picked[i].date, value |-> picked[i].value]]
    /\ pc' = "selected"
    /\ UNCHANGED <<health_data, today, joined, weight_data, error,
                    earlier_runs>>
    /\ UNCHANGED outside_dates

\* data = self.hdp.join_dates(data), on the selection.  The date sequence is
\* built first; the date column of the table passed in is then converted in
\* place (data["date"] = pd.to_datetime(data["date"])) and the merge returned.
join_dates ==
    /\ pc = "selected"
    /\ IF date_range_raises(min_date(bodymass))
       THEN /\ error' = "ValueError"
            /\ pc' = "failed"
            /\ UNCHANGED <<bodymass, joined>>
       ELSE /\ bodymass' = [i \in DOMAIN bodymass |->
                               [bodymass[i] EXCEPT !.date = to_datetime(@)]]
            /\ joined' = merge_left(date_seq(bodymass, today), bodymass')
            /\ pc' = "joined"
            /\ UNCHANGED error
    /\ UNCHANGED <<health_data, today, weight_data, earlier_runs>>
    /\ UNCHANGED outside_dates

\* The rest of wrangle_weight_data: interpolate, convert to pounds, minimum
\* per date.  data["value"].interpolate(inplace=True) acts on the column taken
\* out of the frame: the frame's column is filled when the pandas of the
\* build is not copy-on-write, and left as it was when it is.
aggregate_body_mass ==
    /\ pc = "joined"
    /\ LET column == [i \in DOMAIN joined |-> joined[i].value]
           filled == IF copy_on_write THEN column ELSE interpolate(column)
           pounds == [i \in DOMAIN joined |->
                         [date |-> joined[i].date,
                          body_mass |-> to_pounds(filled[i])]]
       IN  weight_data' = min_body_mass_per_date(pounds)
    /\ pc' = "done"
    /\ UNCHANGED <<health_data, bodymass, today, joined, error,
                    earlier_runs>>
    /\ UNCHANGED outside_dates

NextDates == select_body_mass \/ join_dates \/ aggregate_body_mass

SpecDates == InitDates /\ [][NextDates]_vars

\* The script is run at most MaxRuns times on the same records.
MaxRuns == 2

\* The script is run again (python main.py) on the same raw records, the
\* same day or a later one: what the run before produced is kept aside for
\* comparison, and the derivation starts afresh.
run_again ==
    /\ pc \in {"done", "failed"}
    /\ Len(earlier_runs) + 1 < MaxRuns
    /\ earlier_runs' = Append(earlier_runs,
                              [today |-> today, weight_data |-> weight_data,
                               error |-> error])
    /\ today' \in today..(MaxDay + 1)
    /\ pc' = "start"
    /\ bodymass' = <<>> /\ joined' = <<>> /\ weight_data' = <<>>
    /\ error' = "none"
    /\ UNCHANGED health_data
    /\ UNCHANGED outside_dates

NextRuns == NextDates \/ run_again

SpecRuns == InitDates /\ [][NextRuns]_vars

----------------------------------------------------------------------------
(* Strength metrics: WeightliftingDataProcessor (process_data.py) *)

\* A strength log has at most MaxSets sets.
MaxSets == 2

\* An exercise name is the sequence of its words; a missing name is <<>>.
\* one_rep_max, its daily, cumulative and rolling maxima are kept in
\* thirtieths of a pound, so that weight * (1 + reps / 30) is the integer
\* weight * (30 + reps); weights and body masses are whole pounds.
none_name == <<>>

unweighted_exercises ==
    { <<"Chin", "Up">>, <<"Pull", "Up">>, <<"Wide", "Pull", "Up">>,
      <<"Back", "Extension">>, <<"Ab", "Coaster">>, <<"Battle", "Ropes">>,
      <<"Press", "Up">>, <<"Chest", "Dip">>, <<"Triceps", "Dip">>,
      <<"Curved", "Hack", "Squat">>,
      <<"Bulgarian", "Split", "Squat", "(Plate-Loaded)">>,
      <<"Knee", "Raise", "(Captain's", "Chair)">>, <<"Half-Hack", "Squat">>,
      <<"Goblet", "Squat", "(Kettlebell)">>, <<"Lunge", "(Dumbbell)">> }

\* "(Barbell)" in exercise
is_barbell(name) == \E i \in DOMAIN name : name[i] = "(Barbell)"

\* data["exercise_name"].fillna("Unknown").astype(str)
fill_name(name) == IF name = none_name THEN <<"Unknown">> ELSE name

\* weight += 44 for a barbell exercise
bar_loaded(name, weight) == IF is_barbell(name) THEN weight + 44 ELSE weight

\* A variant of one_rep_max that adds the bar to every exercise's weight.
one_rep_max_bar_always(r) ==
    IF r.exercise_name \in unweighted_exercises
    THEN IF r.body_mass = NaN \/ r.reps = NaN THEN NaN
         ELSE r.body_mass * (30 + r.reps)
    ELSE IF r.weight = NaN \/ r.reps = NaN THEN NaN
         ELSE (r.weight + 44) * (30 + r.reps)

\* A variant of one_rep_max that counts a missing body mass as 0.
one_rep_max_missing_body_mass_as_zero(r) ==
    LET weight == IF r.weight = NaN THEN NaN
                  ELSE bar_loaded(r.exercise_name, r.weight)
    IN  IF r.exercise_name \in unweighted_exercises
        THEN IF r.reps = NaN THEN NaN
             ELSE IF r.body_mass = NaN THEN 0
             ELSE r.body_mass * (30 + r.reps)
        ELSE IF weight = NaN \/ r.reps = NaN THEN NaN
             ELSE weight * (30 + r.reps)

\* The body of the loop of calculate_1RM for one row (name already filled).
\* A missing operand gives a missing product.
one_rep_max(r) ==
    LET weight == IF r.weight = NaN THEN NaN
                  ELSE bar_loaded(r.exercise_name, r.weight)
    IN  IF r.exercise_name \in unweighted_exercises
        THEN IF r.body_mass = NaN \/ r.reps = NaN THEN NaN
             ELSE r.body_mass * (30 + r.reps)
        ELSE IF weight = NaN \/ r.reps = NaN THEN NaN
             ELSE weight * (30 + r.reps)

\* The value of a group of cells under max(): missing cells are skipped, and
\* the result is missing when all are.
max_skipna(cells) ==
    LET present == cells \ {NaN}
    IN  IF present = {} THEN NaN
        ELSE CHOOSE m \in present : \A c \in present : c <= m

\* data.groupby(["exercise_name", "date"])["one_rep_max"].max()
daily_max(table, name, day) ==
    max_skipna({table[i].one_rep_max :
                   i \in {j \in DOMAIN table :
                             table[j].exercise_name = name
                             /\ table[j].date = day}})

days_of(table, name) ==
    {table[i].date : i \in {j \in DOMAIN table : table[j].exercise_name = name}}

\* A variant of cummax_one_rep_max that keeps the day's own maximum.
cummax_of_the_day_only(table, name, day) ==
    max_skipna({table[i].one_rep_max :
                   i \in {j \in DOMAIN table :
                             table[j].exercise_name = name
                             /\ table[j].date = day}})

\* daily_max.groupby("exercise_name")["one_rep_max"].cummax(): missing where
\* the day's maximum is missing, else the largest daily maximum so far.
cummax_one_rep_max(table, name, day) ==
    IF daily_max(table, name, day) = NaN THEN NaN
    ELSE max_skipna({daily_max(table, name, d) :
                        d \in {e \in days_of(table, name) : e <= day}})

\* A variant of rolling_90d_max whose window also holds the day 90 days back.
rolling_max_from_90_days_back(table, name, day) ==
    max_skipna({daily_max(table, name, d) :
                   d \in {e \in days_of(table, name) :
                             day - 90 <= e /\ e <= day}})

\* A variant of rolling_90d_max whose window ends the day before.
rolling_max_before_the_day(table, name, day) ==
    max_skipna({daily_max(table, name, d) :
                   d \in {e \in days_of(table, name) :
                             day - 90 < e /\ e < day}})

\* .rolling(window="90D").max() on the date index: the window of day d is
\* (d - 90 days, d].
rolling_90d_max(table, name, day) ==
    max_skipna({daily_max(table, name, d) :
                   d \in {e \in days_of(table, name) :
                             day - 90 < e /\ e <= day}})

\* The index of daily_max after the groupby: one key per exercise and date
\* that the table holds.
daily_max_keys(table) ==
    {<<table[i].exercise_name, table[i].date>> : i \in DOMAIN table}

\* One row of the table with the metrics of its exercise and date.
with_metrics(r, cummax, rolling) ==
    [date |-> r.date,
     exercise_name |-> r.exercise_name,
     set_order |-> r.set_order,
     weight |-> r.weight,
     reps |-> r.reps,
     body_mass |-> r.body_mass,
     one_rep_max |-> r.one_rep_max,
     cummax_one_rep_max |-> cummax,
     rolling_90d_max |-> rolling]

\* pd.merge(data, daily_max, on=["exercise_name", "date"], how="left"): for
\* each row, in order, one row per row of daily_max with its exercise and
\* date, or one row with missing metrics when daily_max has none.
merge_daily_max(table) ==
    flatten([i \in DOMAIN table |->
        LET hits == {k \in daily_max_keys(table) :
                        k = <<table[i].exercise_name, table[i].date>>}
        IN  IF hits = {} THEN << with_metrics(table[i], NaN, NaN) >>
            ELSE [n \in 1..Cardinality(hits) |->
                     with_metrics(table[i],
                         cummax_one_rep_max(table, table[i].exercise_name,
                                            table[i].date),
                         rolling_90d_max(table, table[i].exercise_name,
                                         table[i].date))]])

\* The orders a sort_values(by=...) may leave the rows in: sorted by the key,
\* rows of equal key in any order (the default quicksort is not stable).
row_orders(n) ==
    {f \in [1..n -> 1..n] : \A i, j \in 1..n : i # j => f[i] # f[j]}

\* The order of the names the model uses, as Python orders the strings.
name_leq(a, b) ==
    LET rank(x) == CASE x = <<"Bench", "Press", "(Barbell)">> -> 1
                     [] x = <<"Chin", "Up">> -> 2
                     [] x = <<"Lat", "Pulldown", "(Cable)">> -> 3
                     [] x = <<"Unknown">> -> 4
    IN  rank(a) <= rank(b)

by_date(a, b) == a.date <= b.date

by_date_and_name(a, b) ==
    a.date < b.date \/ (a.date = b.date /\ name_leq(a.exercise_name, b.exercise_name))

\* The order of two rows under the key columns of by.
key_leq(by, a, b) ==
    CASE by = <<"date">> -> by_date(a, b)
      [] by = <<"date", "exercise_name">> -> by_date_and_name(a, b)

sort_values(table, by) ==
    {[i \in DOMAIN table |-> table[p[i]]] :
        p \in {q \in row_orders(Len(table)) :
                  \A i, j \in DOMAIN table :
                      i < j => key_leq(by, table[q[i]], table[q[j]])}}

\* The daily body-mass series is kept run by run: a run [first, last,
\* body_mass] stands for one row per date from first to last, each with that
\* body mass.  The runs of a series do not overlap, as the series has one
\* row per date (groupby("date") in wrangle_weight_data).
body_mass_rows(series, day) ==
    {k \in DOMAIN series : series[k].first <= day /\ day <= series[k].last}

\* One set joined with one row of the body-mass series, or with none.
joined_set(set, body_mass) ==
    [date |-> set.date,
     exercise_name |-> set.exercise_name,
     set_order |-> set.set_order,
     weight |-> set.weight,
     reps |-> set.reps,
     body_mass |-> body_mass]

\* A variant of merge_body_mass that joins as how="inner" does: a set whose
\* date has no row in the series is left out.
merge_body_mass_inner(sets, series) ==
    flatten([i \in DOMAIN sets |->
        LET hits == SelectRows(series, body_mass_rows(series, sets[i].date))
        IN  [k \in DOMAIN hits |-> joined_set(sets[i], hits[k].body_mass)]])

\* pd.merge(exercise_data, weight_data, on="date", how="left"): for each set,
\* in order, one row per row of the series with its date, or one row with a
\* missing body mass when the series has no such row.
merge_body_mass(sets, series) ==
    flatten([i \in DOMAIN sets |->
        LET hits == SelectRows(series, body_mass_rows(series, sets[i].date))
        IN  IF hits = <<>> THEN << joined_set(sets[i], NaN) >>
            ELSE [k \in DOMAIN hits |->
                     joined_set(sets[i], hits[k].body_mass)]])

TrainingDays == {1, 2, 91}

ExerciseNames ==
    { <<"Bench", "Press", "(Barbell)">>, <<"Chin", "Up">>,
      <<"Lat", "Pulldown", "(Cable)">>, none_name }

Loads == { [weight |-> 100, reps |-> 5], [weight |-> 0, reps |-> 10] }

ExerciseSets ==
    {[date |-> d, exercise_name |-> n, set_order |-> 1,
      weight |-> l.weight, reps |-> l.reps] :
        d \in TrainingDays, n \in ExerciseNames, l \in Loads}

ExerciseLogs == UNION {[1..n -> ExerciseSets] : n \in 0..MaxSets}

\* A daily body-mass series as wrangle_weight_data leaves it: one row per
\* date from its first day on, here 150 lb until day 90 and then late.
BodyMassSeries(first, late) ==
    << [first |-> first, last |-> 90, body_mass |-> 150],
       [first |-> 91, last |-> 91, body_mass |-> late] >>

InitStrength ==
    /\ wl_pc = "start"
    /\ exercise_data \in ExerciseLogs
    /\ body_mass_by_date \in
           {BodyMassSeries(first, late) : first \in {1, 2}, late \in {150, 160}}
    /\ data = <<>>
    /\ volume_data = <<>>
    /\ copy_on_write \in BOOLEAN
    /\ ScoreIdle /\ DatesIdle /\ RunIdle /\ CallIdle /\ TidyIdle
    /\ MoodIdle

\* wrangle_weightlifting_data up to the end of calculate_1RM: the join with
\* the body-mass series, the filled names and the one-rep-max of every row.
calculate_1RM ==
    /\ wl_pc = "start"
    /\ LET merged == merge_body_mass(exercise_data, body_mass_by_date)
           named == [i \in DOMAIN merged |->
                        [merged[i] EXCEPT !.exercise_name = fill_name(@)]]
       IN  data' = [i \in DOMAIN named |->
                       [date |-> named[i].date,
                        exercise_name |-> named[i].exercise_name,
                        set_order |-> named[i].set_order,
                        weight |-> named[i].weight,
                        reps |-> named[i].reps,
                        body_mass |-> named[i].body_mass,
                        one_rep_max |-> one_rep_max(named[i])]]
    /\ wl_pc' = "one_rep_max"
    /\ UNCHANGED <<exercise_data, body_mass_by_date, volume_data>>
    /\ UNCHANGED outside_strength

\* calculate_derivative_metrics: the daily maxima per exercise, their
\* cumulative and rolling maxima, merged back onto every row, and the final
\* sort by (date, exercise_name).
calculate_derivative_metrics ==
    /\ wl_pc = "one_rep_max"
    /\ data' \in sort_values(merge_daily_max(data),
                           <<"date", "exercise_name">>)
    /\ wl_pc' = "metrics"
    /\ UNCHANGED <<exercise_data, body_mass_by_date, volume_data>>
    /\ UNCHANGED outside_strength

\* The end of wrangle_weightlifting_data: data.sort_values(by="date"), then
\* filter_exercise_data: rows with a name, rows with one_rep_max > 0, without
\* the columns set_order, weight and body_mass.
filter_exercise_data ==
    /\ wl_pc = "metrics"
    /\ \E sorted \in sort_values(data, <<"date">>) :
          LET kept == {j \in DOMAIN sorted :
                          /\ sorted[j].exercise_name # none_name
                          /\ sorted[j].one_rep_max # NaN
                          /\ sorted[j].one_rep_max > 0}
              rows == SelectRows(sorted, kept)
          IN  data' = [i \in DOMAIN rows |->
                          [date |-> rows[i].date,
                           exercise_name |-> rows[i].exercise_name,
                           reps |-> rows[i].reps,
                           one_rep_max |-> rows[i].one_rep_max,
                           cummax_one_rep_max |-> rows[i].cummax_one_rep_max,
                           rolling_90d_max |-> rows[i].rolling_90d_max]]
    /\ wl_pc' = "done"
    /\ UNCHANGED <<exercise_data, body_mass_by_date, volume_data>>
    /\ UNCHANGED outside_strength

\* The days of a table's rows, in increasing order.
dates_of(table) == sorted_days({table[i].date : i \in DOMAIN table})

\* weightlifting_data.groupby("date").agg({"one_rep_max": "sum"})
\*     .reset_index(): one row per date of the table, in date order, with
\* the sum of the date's one_rep_max.
wrangle_volume_data(weightlifting_data) ==
    LET days == dates_of(weightlifting_data)
    IN  [k \in DOMAIN days |->
            [date |-> days[k],
             one_rep_max |->
                 LET on_date == SelectRows(weightlifting_data,
                                    {i \in DOMAIN weightlifting_data :
                                        weightlifting_data[i].date = days[k]})
                 IN  SumSeq([i \in DOMAIN on_date |->
                                on_date[i].one_rep_max])]]

\* fill_missing_dates on a table with at least one row: the dates from
\* data["date"].min() to data["date"].max(), left-merged with the table, and
\* merged_data["one_rep_max"].fillna(0, inplace=True), which acts on the
\* column taken out of the frame: the frame's missing cells become 0 when the
\* pandas of the build is not copy-on-write, and stay missing when it is.
fill_missing_dates(table) ==
    LET min_day == table[1].date
        max_day == table[Len(table)].date
    IN  [k \in 1..(max_day - min_day + 1) |->
            LET hits == {i \in DOMAIN table : table[i].date = min_day + k - 1}
            IN  [date |-> min_day + k - 1,
                 one_rep_max |->
                     IF hits # {} THEN table[CHOOSE i \in hits : TRUE].one_rep_max
                     ELSE IF copy_on_write THEN NaN ELSE 0]]

\* VolumeDataProcessor(weightlifting_data).process_volume_data(), as main
\* calls it on the table wrangle_weightlifting_data returned.  With no row,
\* the minimum date is missing and pd.date_range raises.
process_volume_data ==
    /\ wl_pc = "done"
    /\ IF data = <<>>
       THEN /\ wl_pc' = "failed"
            /\ UNCHANGED volume_data
       ELSE /\ volume_data' = fill_missing_dates(wrangle_volume_data(data))
            /\ wl_pc' = "volume"
    /\ UNCHANGED <<exercise_data, body_mass_by_date, data>>
    /\ UNCHANGED outside_strength

NextStrength ==
    \/ calculate_1RM \/ calculate_derivative_metrics \/ filter_exercise_data
    \/ process_volume_data

SpecStrength == InitStrength /\ [][NextStrength]_vars

----------------------------------------------------------------------------
(* Properties of the date reconciliation (checked under SpecDates) *)

Reconciled == pc \in {"joined", "done"}

ObservedDays == {bodymass[i].date.day : i \in DOMAIN bodymass}
FirstObserved == CHOOSE d \in ObservedDays : \A e \in ObservedDays : d <= e
LastObserved == CHOOSE d \in ObservedDays : \A e \in ObservedDays : e <= d

CalendarDays == 0..(MaxDay + 2)

RowsOn(table, d) == Cardinality({i \in DOMAIN table : table[i].date.day = d})

\* C6 (as claimed): for a non-empty set of observations, the table join_dates
\* returns and the weight series built from it hold exactly one row per
\* calendar date from the first to the last observed date, and no other date.
C6_CompletenessAsClaimed ==
    (Reconciled /\ bodymass # <<>>) =>
        /\ \A d \in CalendarDays :
               RowsOn(joined, d) =
                   (IF FirstObserved <= d /\ d <= LastObserved THEN 1 ELSE 0)
        /\ pc = "done" =>
               /\ \A d \in CalendarDays :
                      RowsOn(weight_data, d) =
                          (IF FirstObserved <= d /\ d <= LastObserved
                           THEN 1 ELSE 0)
               /\ Len(weight_data) = LastObserved - FirstObserved + 1

\* C6 (amended): for a non-empty set of observations, the reconciled series
\* runs from the first observed date to today (datetime.now), not to the last
\* observed date: the weight series holds exactly one row per calendar date
\* of that span, in date order (no row when today is before the first
\* observed date), and the table join_dates returns holds, for each date of
\* the span, one row per observation of that date, or one row when the date
\* has no observation.
C6_Completeness ==
    (Reconciled /\ bodymass # <<>>) =>
        /\ \A d \in CalendarDays :
               RowsOn(joined, d) =
                   (IF FirstObserved <= d /\ d <= today
                    THEN (IF RowsOn(bodymass, d) = 0 THEN 1
                          ELSE RowsOn(bodymass, d))
                    ELSE 0)
        /\ pc = "done" =>
               /\ Len(weight_data) =
                      (IF today >= FirstObserved
                       THEN today - FirstObserved + 1 ELSE 0)
               /\ \A i \in DOMAIN weight_data :
                      weight_data[i].date.day = FirstObserved + i - 1

C6_Witness ==
    /\ pc = "done" /\ bodymass # <<>>
    /\ today > LastObserved
    /\ \E d \in ObservedDays : RowsOn(bodymass, d) = 2
    /\ Len(weight_data) = today - FirstObserved + 1
    /\ Len(joined) = Len(weight_data) + 1

C8_JoinDatesPure == [][pc = "selected" => bodymass' = bodymass]_vars

----------------------------------------------------------------------------
(* Properties of the strength metrics (checked under SpecStrength) *)

\* weight * (1 + reps / 30) in thirtieths, missing when an operand is.
Epley(x, reps) == IF x = NaN \/ reps = NaN THEN NaN ELSE x * (30 + reps)

\* C9: every set's one_rep_max is body_mass * (1 + reps/30) when the exercise
\* is in the unweighted list, and else effective_weight * (1 + reps/30) with
\* effective_weight = weight + 44 when the name contains "(Barbell)" and
\* weight otherwise; weight 100 with 5 reps gives 116.667 (3500 thirtieths)
\* without a bar and 168.0 (5040 thirtieths) with one.
C9_OneRepMaxFormula ==
    wl_pc \in {"one_rep_max", "metrics"} =>
        \A i \in DOMAIN data :
            LET r == data[i]
                barbell == \E k \in DOMAIN r.exercise_name :
                               r.exercise_name[k] = "(Barbell)"
            IN  /\ r.exercise_name \in unweighted_exercises =>
                       r.one_rep_max = Epley(r.body_mass, r.reps)
                /\ (r.exercise_name \notin unweighted_exercises /\ barbell) =>
                       r.one_rep_max = Epley(r.weight + 44, r.reps)
                /\ (r.exercise_name \notin unweighted_exercises /\ ~barbell) =>
                       r.one_rep_max = Epley(r.weight, r.reps)
                /\ (r.weight = 100 /\ r.reps = 5
                    /\ r.exercise_name \notin unweighted_exercises) =>
                       r.one_rep_max = (IF barbell THEN 5040 ELSE 3500)

C9_Witness ==
    /\ wl_pc = "one_rep_max"
    /\ \E i, j \in DOMAIN data :
          /\ data[i].exercise_name = <<"Bench", "Press", "(Barbell)">>
          /\ data[i].weight = 100 /\ data[i].reps = 5
          /\ data[i].one_rep_max = 5040
          /\ data[j].exercise_name = <<"Chin", "Up">>
          /\ data[j].body_mass = 150 /\ data[j].one_rep_max = 150 * 35

\* C10: in the output, within one exercise_name, cummax_one_rep_max does not
\* decrease as the date increases, and rows of one (exercise_name, date)
\* carry the same value.
C10_CummaxMonotonic ==
    wl_pc = "done" =>
        \A i, j \in DOMAIN data :
            (data[i].exercise_name = data[j].exercise_name
             /\ data[i].date <= data[j].date) =>
                /\ data[i].cummax_one_rep_max # NaN
                /\ data[j].cummax_one_rep_max # NaN
                /\ data[i].cummax_one_rep_max <= data[j].cummax_one_rep_max

C10_Witness ==
    /\ wl_pc = "done"
    /\ \E i, j \in DOMAIN data :
          /\ data[i].exercise_name = data[j].exercise_name
          /\ data[i].date < data[j].date
          /\ data[j].one_rep_max < data[i].one_rep_max
          /\ data[j].cummax_one_rep_max = data[i].one_rep_max

\* The sets of the log as calculate_1RM scores them: joined with the body
\* mass of their date, the name filled, with their one_rep_max.
ScoredSets ==
    LET merged == merge_body_mass(exercise_data, body_mass_by_date)
    IN  [i \in DOMAIN merged |->
            [date |-> merged[i].date,
             exercise_name |-> fill_name(merged[i].exercise_name),
             null_name |-> merged[i].exercise_name = none_name,
             body_mass |-> merged[i].body_mass,
             one_rep_max |->
                 one_rep_max([merged[i] EXCEPT
                                 !.exercise_name = fill_name(@)])]]

\* The largest of a set of one_rep_max values that holds at least one.
Largest(values) == CHOOSE m \in values : \A v \in values : v <= m

\* C11: every output row's rolling_90d_max is the largest one_rep_max among
\* all the sets of its exercise dated from 89 days before its date to its
\* date, however many training days fall in that span.
C11_RollingWindow ==
    wl_pc = "done" =>
        \A i \in DOMAIN data :
            LET inside == {j \in DOMAIN ScoredSets :
                              /\ ScoredSets[j].exercise_name = data[i].exercise_name
                              /\ data[i].date - 89 <= ScoredSets[j].date
                              /\ ScoredSets[j].date <= data[i].date
                              /\ ScoredSets[j].one_rep_max # NaN}
            IN  /\ inside # {}
                /\ data[i].rolling_90d_max =
                       Largest({ScoredSets[j].one_rep_max : j \in inside})

\* A row of day 91 whose exercise had a heavier set on day 1, 90 days
\* before: that set is outside the row's window.
C11_Witness ==
    /\ wl_pc = "done"
    /\ \E i \in DOMAIN data : \E j \in DOMAIN ScoredSets :
          /\ data[i].date = 91 /\ ScoredSets[j].date = 1
          /\ ScoredSets[j].exercise_name = data[i].exercise_name
          /\ ScoredSets[j].one_rep_max # NaN
          /\ ScoredSets[j].one_rep_max > data[i].rolling_90d_max

\* C12 (as claimed): the output holds no row of a set whose exercise name was
\* missing in the log (such a row can only carry the filled name "Unknown",
\* which no logged set has), and no row with one_rep_max <= 0.
C12_StrengthFilter ==
    wl_pc = "done" =>
        \A i \in DOMAIN data :
            /\ data[i].exercise_name # <<"Unknown">>
            /\ data[i].one_rep_max > 0

\* The part of C12 that the code keeps: no output row has one_rep_max <= 0
\* or a missing one_rep_max.
C12_PositivePart ==
    wl_pc = "done" =>
        \A i \in DOMAIN data :
            data[i].one_rep_max # NaN /\ data[i].one_rep_max > 0

\* C13: a set of an unweighted exercise whose date has no body mass gets a
\* missing one_rep_max, not 0 and not another number, and the scoring goes
\* on: every set of the log is still a row, and the metrics follow.
C13_NullBodyMass ==
    wl_pc \in {"one_rep_max", "metrics"} =>
        /\ Len(data) = Len(exercise_data)
        /\ \A i \in DOMAIN data :
               (data[i].exercise_name \in unweighted_exercises
                /\ data[i].body_mass = NaN) => data[i].one_rep_max = NaN

C13_Witness ==
    /\ wl_pc = "metrics"
    /\ \E i \in DOMAIN data :
          /\ data[i].exercise_name = <<"Chin", "Up">>
          /\ data[i].body_mass = NaN /\ data[i].one_rep_max = NaN

\* C14 (as claimed): the rows returned are in (date, exercise_name) order:
\* dates do not decrease, and within a date names do not decrease.
C14_FinalOrdering ==
    wl_pc = "done" =>
        \A i, j \in DOMAIN data :
            i < j => by_date_and_name(data[i], data[j])

\* The part of C14 that the code keeps: the dates of the output do not
\* decrease.
C14_DatePart ==
    wl_pc = "done" =>
        \A i, j \in DOMAIN data : i < j => data[i].date <= data[j].date

----------------------------------------------------------------------------
(* Properties of the volume series (checked under SpecStrength) *)

TrainedDays == {data[i].date : i \in DOMAIN data}
FirstTrained == CHOOSE d \in TrainedDays : \A e \in TrainedDays : d <= e
LastTrained == CHOOSE d \in TrainedDays : \A e \in TrainedDays : e <= d

\* The sum of one_rep_max over the returned sets of day d.
RECURSIVE SumOver(_, _)
SumOver(rows, d) ==
    IF rows = {} THEN 0
    ELSE LET i == CHOOSE i \in rows : TRUE
         IN  (IF data[i].date = d THEN data[i].one_rep_max ELSE 0)
                 + SumOver(rows \ {i}, d)

\* C15 (as claimed): the volume series has exactly one row per calendar date
\* from the first to the last date of the scored sets; the value of a date
\* with scored sets is the sum of their one_rep_max, and the value of a date
\* without is 0.
C15_VolumeAggregation ==
    wl_pc = "volume" =>
        /\ Len(volume_data) = LastTrained - FirstTrained + 1
        /\ \A k \in DOMAIN volume_data :
               /\ volume_data[k].date = FirstTrained + k - 1
               /\ volume_data[k].one_rep_max =
                      (IF volume_data[k].date \in TrainedDays
                       THEN SumOver(DOMAIN data, volume_data[k].date)
                       ELSE 0)

\* The part of C15 that the code keeps on every build: one row per calendar
\* date of the span, the sum on a date with scored sets, and a value that is
\* 0 or missing, never carried forward, on a date without.
C15_DatesAndSums ==
    wl_pc = "volume" =>
        /\ Len(volume_data) = LastTrained - FirstTrained + 1
        /\ \A k \in DOMAIN volume_data :
               /\ volume_data[k].date = FirstTrained + k - 1
               /\ IF volume_data[k].date \in TrainedDays
                  THEN volume_data[k].one_rep_max =
                           SumOver(DOMAIN data, volume_data[k].date)
                  ELSE volume_data[k].one_rep_max \in {0, NaN}

----------------------------------------------------------------------------
(* One run of main (main.py): the order of its statements *)

\* The tables main.py names for what the fetch returns.
fetched_names ==
    {"apple_health_data", "strong_data", "main_symptoms", "custom_entries",
     "custom_symptoms"}

\* What main binds when fetcher.fetch_icloud_data() returns and the result
\* unpacks into main's five names: each name a table or None ("Both or
\* either could be None in case of failure").
fetch_icloud_data_outcomes == [fetched_names -> {"table", "None"}]

\* The tables main derives and saves.
derived_tables ==
    {"mental_health_data", "weight_data", "weightlifting_data", "volume_data"}

\* A variant of next_statement that saves weight_data as soon as it is
\* derived.
next_statement_saving_as_derived(statement) ==
    CASE statement = "clean_health_data" -> "clean_exercise_data"
      [] statement = "clean_exercise_data" -> "wrangle_mental_health_data"
      [] statement = "wrangle_mental_health_data" -> "wrangle_weight_data"
      [] statement = "wrangle_weight_data" -> "save weight_data"
      [] statement = "save weight_data" -> "wrangle_weightlifting_data"
      [] statement = "wrangle_weightlifting_data" -> "process_volume_data"
      [] statement = "process_volume_data" -> "save weightlifting_data"
      [] statement = "save weightlifting_data" -> "save mental_health_data"
      [] statement = "save mental_health_data" -> "save volume_data"
      [] statement = "save volume_data" -> "returned"

\* The statement of main that follows a statement that completed.
next_statement(statement) ==
    CASE statement = "clean_health_data" -> "clean_exercise_data"
      [] statement = "clean_exercise_data" -> "wrangle_mental_health_data"
      [] statement = "wrangle_mental_health_data" -> "wrangle_weight_data"
      [] statement = "wrangle_weight_data" -> "wrangle_weightlifting_data"
      [] statement = "wrangle_weightlifting_data" -> "process_volume_data"
      [] statement = "process_volume_data" -> "save weight_data"
      [] statement = "save weight_data" -> "save weightlifting_data"
      [] statement = "save weightlifting_data" -> "save mental_health_data"
      [] statement = "save mental_health_data" -> "save volume_data"
      [] statement = "save volume_data" -> "returned"

\* The statement of main that saves a table.
save_statement(table) ==
    CASE table = "weight_data" -> "save weight_data"
      [] table = "weightlifting_data" -> "save weightlifting_data"
      [] table = "mental_health_data" -> "save mental_health_data"
      [] table = "volume_data" -> "save volume_data"

InitMain ==
    /\ main_pc = "fetch_icloud_data"
    /\ fetched = <<>>
    /\ completed = {}
    /\ written = {}
    /\ failed_at = "none"
    /\ copy_on_write \in BOOLEAN
    /\ ScoreIdle /\ DatesIdle /\ StrengthIdle /\ CallIdle /\ TidyIdle
    /\ MoodIdle

\* An exception in a statement of main is caught nowhere: the run ends there.
raise ==
    /\ failed_at' = main_pc
    /\ main_pc' = "failed"
    /\ UNCHANGED <<fetched, completed, written>>

\* A statement that calls a processor on the tables named in uses and binds
\* the table named in binds (none for the two cleaning calls): it raises when
\* a table it uses is None, and may raise on a table (an empty selection, a
\* missing column); when it returns, main goes on to its next statement.
call(statement, uses, binds) ==
    /\ main_pc = statement
    /\ \E raises \in BOOLEAN :
          /\ (\E t \in uses : fetched[t] = "None") => raises
          /\ IF raises THEN raise
             ELSE /\ completed' = completed \cup binds
                  /\ main_pc' = next_statement(statement)
                  /\ UNCHANGED <<fetched, written, failed_at>>
    /\ UNCHANGED outside_run

\* fetcher.fetch_icloud_data() and the binding of what it returns.  The
\* statement raises when the result does not unpack into the five names
\* (None after a failed login; the six values fetch_icloud_data of
\* fetch_icloud_data.py returns).
main_fetch_icloud_data ==
    /\ main_pc = "fetch_icloud_data"
    /\ \E raises \in BOOLEAN :
          IF raises THEN raise
          ELSE /\ fetched' \in fetch_icloud_data_outcomes
               /\ main_pc' = "if apple_health_data is None"
               /\ UNCHANGED <<completed, written, failed_at>>
    /\ UNCHANGED outside_run

\* if apple_health_data is None: print(...); return
main_check_fetched ==
    /\ main_pc = "if apple_health_data is None"
    /\ main_pc' = IF fetched["apple_health_data"] = "None" THEN "returned"
                  ELSE "clean_health_data"
    /\ UNCHANGED <<fetched, completed, written, failed_at>>
    /\ UNCHANGED outside_run

\* apple_health_data = hdp.clean_health_data(apple_health_data)
main_clean_health_data ==
    call("clean_health_data", {"apple_health_data"}, {})

\* exercise_data = edp.clean_exercise_data(strong_data)
main_clean_exercise_data ==
    call("clean_exercise_data", {"strong_data"}, {})

\* mental_health_data = mhp.wrangle_mental_health_data()
main_wrangle_mental_health_data ==
    call("wrangle_mental_health_data",
         {"main_symptoms", "custom_entries", "custom_symptoms"},
         {"mental_health_data"})

\* weight_data = wdp.wrangle_weight_data(apple_health_data)
main_wrangle_weight_data ==
    call("wrangle_weight_data", {}, {"weight_data"})

\* weightlifting_data = wldp.wrangle_weightlifting_data(exercise_data,
\*                                                      weight_data)
main_wrangle_weightlifting_data ==
    call("wrangle_weightlifting_data", {}, {"weightlifting_data"})

\* vdp = VolumeDataProcessor(weightlifting_data)
\* volume_data = vdp.process_volume_data()
main_process_volume_data ==
    call("process_volume_data", {}, {"volume_data"})

\* save_to_csv(<table>, filename="<table>", folder="./data/"): the file is
\* written, or data.to_csv raises (no folder, no space).
save_to_csv ==
    \E table \in derived_tables :
        /\ main_pc = save_statement(table)
        /\ \E raises \in BOOLEAN :
              IF raises THEN raise
              ELSE /\ written' = written \cup {table}
                   /\ main_pc' = next_statement(main_pc)
                   /\ UNCHANGED <<fetched, completed, failed_at>>
        /\ UNCHANGED outside_run

NextMain ==
    \/ main_fetch_icloud_data \/ main_check_fetched
    \/ main_clean_health_data \/ main_clean_exercise_data
    \/ main_wrangle_mental_health_data \/ main_wrangle_weight_data
    \/ main_wrangle_weightlifting_data \/ main_process_volume_data
    \/ save_to_csv

SpecMain == InitMain /\ [][NextMain]_vars

----------------------------------------------------------------------------
(* Properties of a run of main (checked under SpecMain) *)

derivations ==
    {"wrangle_mental_health_data", "wrangle_weight_data",
     "wrangle_weightlifting_data", "process_volume_data"}

----------------------------------------------------------------------------
(* Properties of repeated runs (checked under SpecRuns) *)

RunEnded == pc \in {"done", "failed"}

\* The run that just ended produced what run k produced.
SameOutput(k) ==
    /\ earlier_runs[k].weight_data = weight_data
    /\ earlier_runs[k].error = error

----------------------------------------------------------------------------
(* reshape_to_tidy_format: process_mental_health.py *)

value_cols ==
    << "mental_health", "subjective_well_being", "life_satisfaction",
       "work_satisfaction" >>

\* col + "_partial"
partial_col(col) ==
    CASE col = "mental_health" -> "mental_health_partial"
      [] col = "subjective_well_being" -> "subjective_well_being_partial"
      [] col = "life_satisfaction" -> "life_satisfaction_partial"
      [] col = "work_satisfaction" -> "work_satisfaction_partial"

partial_value_cols == [k \in DOMAIN value_cols |-> partial_col(value_cols[k])]

\* A variant of str_replace_partial that leaves the name as it is.
str_replace_nothing(metric) == metric

\* tidy_partial["metric"].str.replace("_partial", "")
str_replace_partial(metric) ==
    CASE metric = "mental_health_partial" -> "mental_health"
      [] metric = "subjective_well_being_partial" -> "subjective_well_being"
      [] metric = "life_satisfaction_partial" -> "life_satisfaction"
      [] metric = "work_satisfaction_partial" -> "work_satisfaction"
      [] OTHER -> metric

\* pd.melt(data, id_vars=["date", "note"], value_vars=value_vars,
\*         var_name="metric", value_name=...): column after column, the rows
\* of data in their order.
melt(table, value_vars) ==
    flatten([k \in DOMAIN value_vars |->
        [i \in DOMAIN table |->
            [date |-> table[i].date, note |-> table[i].note,
             metric |-> value_vars[k], value |-> table[i][value_vars[k]]]]])

\* pd.merge(tidy_full, tidy_partial, on=["date", "metric", "note"],
\*          how="left"): for each row of tidy_full, in order, one row per row
\* of tidy_partial with the same key, or one row with a missing
\* value_partial when there is none.
merge_tidy(tidy_full, tidy_partial) ==
    flatten([i \in DOMAIN tidy_full |->
        LET matches ==
                {j \in DOMAIN tidy_partial :
                    /\ tidy_partial[j].date = tidy_full[i].date
                    /\ tidy_partial[j].metric = tidy_full[i].metric
                    /\ tidy_partial[j].note = tidy_full[i].note}
            matched == SelectRows(tidy_partial, matches)
        IN  IF matches = {}
            THEN << [date |-> tidy_full[i].date, metric |-> tidy_full[i].metric,
                     note |-> tidy_full[i].note, value |-> tidy_full[i].value,
                     value_partial |-> NaN] >>
            ELSE [k \in DOMAIN matched |->
                     [date |-> tidy_full[i].date,
                      metric |-> tidy_full[i].metric,
                      note |-> tidy_full[i].note,
                      value |-> tidy_full[i].value,
                      value_partial |-> matched[k].value]]])

reshape_to_tidy_format_of(table) ==
    LET tidy_full == melt(table, value_cols)
        melted == melt(table, partial_value_cols)
        tidy_partial ==
            [j \in DOMAIN melted |->
                [melted[j] EXCEPT !.metric = str_replace_partial(@)]]
    IN  merge_tidy(tidy_full, tidy_partial)

\* The score of category k on day d, as a value no other cell can hold.
ScoreOf(d, k) == 10 * d + k

\* Which scores of a row are defined: "both" cutoffs, the "partial" one only,
\* or "none" (a score defined under the full cutoff is defined under the
\* half cutoff).
ScorePatterns ==
    { [k \in DOMAIN value_cols |-> "both"],
      [k \in DOMAIN value_cols |-> "partial"],
      [k \in DOMAIN value_cols |-> "none"],
      [k \in DOMAIN value_cols |-> IF k = 1 THEN "both" ELSE "none"],
      [k \in DOMAIN value_cols |-> IF k = 1 THEN "none"
                                   ELSE IF k = 2 THEN "partial" ELSE "both"] }

\* The scored row of day d with a note and a pattern of defined scores.
ScoredRow(d, text, pattern) ==
    [c \in {"date", "note"} \cup Range(value_cols) \cup Range(partial_value_cols)
        |-> CASE c = "date" -> d
              [] c = "note" -> text
              [] OTHER ->
                   LET k == CHOOSE k \in DOMAIN value_cols :
                                c \in {value_cols[k], partial_col(value_cols[k])}
                       defined == IF c = value_cols[k] THEN {"both"}
                                  ELSE {"both", "partial"}
                   IN  IF pattern[k] \in defined THEN ScoreOf(d, k) ELSE NaN]

\* The scored tables: one row per date of the fixed log (MoodEntry), in date
\* order, each with a note ("" once cleaned) and a pattern.
ScoredTables ==
    UNION { { [i \in DOMAIN sorted_days(days) |->
                  ScoredRow(sorted_days(days)[i], texts[sorted_days(days)[i]],
                            patterns[sorted_days(days)[i]])] :
              texts \in [days -> {"", "moved"}],
              patterns \in [days -> ScorePatterns] } :
            days \in SUBSET (1..MaxDay) }

InitTidy ==
    /\ tidy_pc = "scored"
    /\ scored_data \in ScoredTables
    /\ tidy_data = <<>>
    /\ ScoreIdle /\ DatesIdle /\ StrengthIdle /\ RunIdle /\ CallIdle
    /\ MoodIdle
    /\ copy_on_write = FALSE

\* data = self.reshape_to_tidy_format(data)
reshape_to_tidy_format ==
    /\ tidy_pc = "scored"
    /\ tidy_data' = reshape_to_tidy_format_of(scored_data)
    /\ tidy_pc' = "tidy"
    /\ UNCHANGED scored_data
    /\ UNCHANGED outside_tidy

NextTidy == reshape_to_tidy_format

SpecTidy == InitTidy /\ [][NextTidy]_vars

----------------------------------------------------------------------------
(* Properties of the tidy table (checked under SpecTidy) *)

\* The rows of the tidy table for a date and a category.
TidyRows(d, c) ==
    {j \in DOMAIN tidy_data : tidy_data[j].date = d /\ tidy_data[j].metric = c}

\* C19: the tidy table has exactly one row per input date and category (4
\* rows per date); its value is the date's full-cutoff score of the category,
\* its value_partial the date's half-cutoff score of the same category, its
\* note the date's note.
C19_TidyReshape ==
    tidy_pc = "tidy" =>
        /\ Len(tidy_data) = 4 * Len(scored_data)
        /\ \A i \in DOMAIN scored_data : \A k \in DOMAIN value_cols :
              LET rows == TidyRows(scored_data[i].date, value_cols[k])
              IN  /\ Cardinality(rows) = 1
                  /\ \A j \in rows :
                        /\ tidy_data[j].value = scored_data[i][value_cols[k]]
                        /\ tidy_data[j].value_partial =
                               scored_data[i][partial_value_cols[k]]
                        /\ tidy_data[j].note = scored_data[i].note

\* Two dates with different notes, reshaped; on one of them a category has
\* its half-cutoff score only.
C19_Witness ==
    /\ tidy_pc = "tidy" /\ Len(scored_data) = 2
    /\ scored_data[1].note # scored_data[2].note
    /\ \E j \in DOMAIN tidy_data :
          /\ tidy_data[j].metric = "subjective_well_being"
          /\ tidy_data[j].value = NaN /\ tidy_data[j].value_partial # NaN

----------------------------------------------------------------------------
(* merge_data: process_mental_health.py *)

\* The custom log holds at most MaxEntries entries.
MaxEntries == 2

\* A calendar date as text ("%Y-%m-%d"), and a Timestamp: a date and a time
\* of day.
ymd(day) == [ymd |-> day]
Timestamp(day, time) == [day |-> day, time |-> time]

\* pd.to_datetime of a "YYYY-MM-DD" text: midnight of that date.
to_datetime_ymd(text) == Timestamp(text.ymd, "00:00:00")

\* .astype(str) of a datetime column whose times are all midnight: the dates
\* alone.
astype_str(ts) == ymd(ts.day)

\* A variant of strftime that keeps the time of day.
strftime_with_time(ts) == [ymd |-> ts.day, time |-> ts.time]

\* .dt.strftime("%Y-%m-%d"): the date of the Timestamp, its time dropped.
strftime(ts) == ymd(ts.day)

\* pd.Timestamp("today") - pd.to_timedelta(days_since_last, unit="d")
minus_days(ts, days) == Timestamp(ts.day - days, ts.time)

\* custom_symptoms.rename(columns={"ID": "SYMPTOM"})
\*     .merge(custom_entries, on="SYMPTOM"): the entries of each symptom of
\* the table, symptom after symptom, with the symptom's NAME.
merge_on_symptom(symptoms, entries) ==
    flatten([k \in DOMAIN symptoms |->
        LET own == SelectRows(entries,
                       {j \in DOMAIN entries :
                           entries[j].SYMPTOM = symptoms[k].ID})
        IN  [j \in DOMAIN own |->
                [NAME |-> symptoms[k].NAME, ENTRY |-> own[j].ENTRY,
                 VALUE |-> own[j].VALUE]]])

\* .assign(days_since_last=max_date - df["ENTRY"], date=...)
assign_date(merged, max_date, now) ==
    [j \in DOMAIN merged |->
        [NAME |-> merged[j].NAME, VALUE |-> merged[j].VALUE,
         date |-> strftime(minus_days(now, max_date - merged[j].ENTRY))]]

\* aggfunc="first" on the VALUEs of one date and one NAME: the first that is
\* not missing, NaN when all are.
first_value(dated, day, name) ==
    LET held == {j \in DOMAIN dated :
                    /\ dated[j].date = day /\ dated[j].NAME = name
                    /\ notna(dated[j].VALUE)}
    IN  IF held = {} THEN NaN
        ELSE dated[CHOOSE j \in held : \A h \in held : j <= h].VALUE

\* .pivot_table(index="date", columns="NAME", values="VALUE",
\*              aggfunc="first").reset_index(): a column per NAME and a row
\* per date that hold a value; here as date -> (NAME -> value).
pivot_table(dated) ==
    LET names == {dated[j].NAME : j \in {h \in DOMAIN dated :
                                             notna(dated[h].VALUE)}}
        days == {dated[j].date : j \in {h \in DOMAIN dated :
                                            notna(dated[h].VALUE)}}
    IN  [day \in days |-> [name \in names |-> first_value(dated, day, name)]]

\* The NAME columns of a pivoted table.
pivot_columns(custom_data) ==
    UNION {DOMAIN custom_data[day] : day \in DOMAIN custom_data}

\* self.main_symptoms.merge(custom_data, on="date", how="left"): custom_data
\* has one row per date, so each row of the fixed log comes out once, with
\* the custom columns of its date, or missing values.
merge_custom(main, custom_data) ==
    [i \in DOMAIN main |->
        main[i] @@
        [name \in pivot_columns(custom_data) |->
            IF main[i]["date"] \in DOMAIN custom_data
            THEN custom_data[main[i]["date"]][name] ELSE NaN]]

\* max_date = self.custom_entries["ENTRY"].max()
max_entry(entries) ==
    CHOOSE m \in {entries[j].ENTRY : j \in DOMAIN entries} :
        \A j \in DOMAIN entries : entries[j].ENTRY <= m

merge_data_of(main, symptoms, entries, now) ==
    LET custom_data ==
            pivot_table(assign_date(merge_on_symptom(symptoms, entries),
                                    max_entry(entries), now))
        dated_main ==
            [i \in DOMAIN main |->
                ("date" :>
                    astype_str(to_datetime_ymd(main[i]["DATE (YYYY-MM-DD)"])))
                @@ main[i]]
    IN  merge_custom(dated_main, custom_data)

\* The user's symptoms.
SymptomTable ==
    << [ID |-> 1, NAME |-> "energy"], [ID |-> 2, NAME |-> "liberty"] >>

\* The custom logs: one to MaxEntries entries of the user's symptoms, each on
\* an entry number, with a value or none.
CustomLogs ==
    UNION {[1..n -> [ENTRY : 1..MaxDay, SYMPTOM : {1, 2},
                     VALUE : {NaN, 3000}]] : n \in 1..MaxEntries}

\* The fixed logs: one row per logged date, in date order.
FixedLogs ==
    {[i \in DOMAIN sorted_days(days) |->
         [c \in {"ID", "DATE (YYYY-MM-DD)", "ELEVATED"} |->
             CASE c = "ID" -> i
               [] c = "DATE (YYYY-MM-DD)" -> ymd(sorted_days(days)[i])
               [] c = "ELEVATED" -> 2000]] : days \in SUBSET (1..MaxDay)}

InitMerge ==
    /\ mood_pc = "fetched"
    /\ main_symptoms \in FixedLogs
    /\ custom_symptoms = SymptomTable
    /\ custom_entries \in CustomLogs
    /\ timestamp_today \in {Timestamp(MaxDay, t) : t \in {"00:00:00", "17:30:00"}}
    /\ combined_data = <<>> /\ cleaned_data = <<>>
    /\ ScoreIdle /\ DatesIdle /\ StrengthIdle /\ RunIdle /\ CallIdle
    /\ TidyIdle
    /\ copy_on_write = FALSE

\* data = self.merge_data(): the fixed log gets its date column (in place)
\* and the merged table is returned.
merge_data ==
    /\ mood_pc = "fetched"
    /\ combined_data' = merge_data_of(main_symptoms, custom_symptoms,
                                      custom_entries, timestamp_today)
    /\ main_symptoms' =
           [i \in DOMAIN main_symptoms |->
               ("date" :> astype_str(to_datetime_ymd(
                              main_symptoms[i]["DATE (YYYY-MM-DD)"])))
               @@ main_symptoms[i]]
    /\ mood_pc' = "merged"
    /\ UNCHANGED <<custom_symptoms, custom_entries, timestamp_today,
                    cleaned_data>>
    /\ UNCHANGED outside_mood

NextMerge == merge_data

SpecMerge == InitMerge /\ [][NextMerge]_vars

----------------------------------------------------------------------------
(* Properties of the merged table (checked under SpecMerge) *)

\* The calendar day the claim assigns to a custom entry of offset e.
RebasedDay(e) ==
    LET offsets == {custom_entries[k].ENTRY : k \in DOMAIN custom_entries}
        latest == CHOOSE m \in offsets : \A x \in offsets : x <= m
    IN  timestamp_today.day - (latest - e)

NameOf(symptom) ==
    (CHOOSE r \in Range(custom_symptoms) : r.ID = symptom).NAME

LoggedDay(i) == main_symptoms[i]["DATE (YYYY-MM-DD)"].ymd

\* The custom entries of a name that hold a value and fall on a day.
EntriesOn(name, day) ==
    {k \in DOMAIN custom_entries :
        /\ NameOf(custom_entries[k].SYMPTOM) = name
        /\ RebasedDay(custom_entries[k].ENTRY) = day
        /\ notna(custom_entries[k].VALUE)}

\* C21: every custom entry of offset e is dated today - (latest offset - e),
\* and its value is attached to the fixed-log row of that date; a fixed-log
\* row with no custom entry on its date has missing custom factors; the
\* fixed-log rows come out once each, unchanged and in their order.
C21_DateRebasing ==
    mood_pc = "merged" =>
        /\ Len(combined_data) = Len(main_symptoms)
        /\ \A i \in DOMAIN main_symptoms :
              /\ \A c \in DOMAIN main_symptoms[i] :
                    combined_data[i][c] = main_symptoms[i][c]
              /\ \A name \in DOMAIN combined_data[i] \ DOMAIN main_symptoms[i] :
                    IF EntriesOn(name, LoggedDay(i)) = {}
                    THEN combined_data[i][name] = NaN
                    ELSE \E k \in EntriesOn(name, LoggedDay(i)) :
                            combined_data[i][name] = custom_entries[k].VALUE
        /\ \A k \in DOMAIN custom_entries : \A i \in DOMAIN main_symptoms :
              (/\ notna(custom_entries[k].VALUE)
               /\ LoggedDay(i) = RebasedDay(custom_entries[k].ENTRY))
              => LET name == NameOf(custom_entries[k].SYMPTOM)
                 IN  /\ name \in DOMAIN combined_data[i]
                     /\ notna(combined_data[i][name])

\* An energy entry two days before the latest entry (a liberty entry), merged
\* in the afternoon of day MaxDay onto a fixed log of three days: energy is
\* attached two days before today, liberty today, nothing in between.
C21_Witness ==
    /\ mood_pc = "merged" /\ timestamp_today.time = "17:30:00"
    /\ Len(custom_entries) = 2 /\ Len(combined_data) = 3
    /\ custom_entries[1].ENTRY + 2 = custom_entries[2].ENTRY
    /\ LoggedDay(3) = timestamp_today.day /\ LoggedDay(1) + 2 = LoggedDay(3)
    /\ LoggedDay(2) = LoggedDay(1) + 1
    /\ {"energy", "liberty"} \subseteq DOMAIN combined_data[1]
    /\ combined_data[1]["energy"] = 3000 /\ combined_data[1]["liberty"] = NaN
    /\ combined_data[2]["energy"] = NaN /\ combined_data[2]["liberty"] = NaN
    /\ combined_data[3]["energy"] = NaN /\ combined_data[3]["liberty"] = 3000

----------------------------------------------------------------------------
(* clean_merged_data: process_mental_health.py *)

\* A missing text (a note that was not written).
NA == "<NA>"

\* re.sub(r"\s+", "_", col).lower()
snake_case(col) ==
    CASE col = "ID" -> "id"
      [] col = "DATE (YYYY-MM-DD)" -> "date_(yyyy-mm-dd)"
      [] col = "NOTE" -> "note"
      [] col = "ELEVATED" -> "elevated"
      [] col = "positive liberty" -> "positive_liberty"
      [] col = "negative liberty" -> "negative_liberty"
      [] OTHER -> col

\* df.columns = [snake case of col for col in df.columns], on a row.
renamed(r) ==
    [c \in {snake_case(k) : k \in DOMAIN r} |->
        r[CHOOSE k \in DOMAIN r : snake_case(k) = c]]

\* (df["positive_liberty"] + df["negative_liberty"]) / 2: missing when a
\* part is missing.
combined_liberty(r) ==
    IF notna(r["positive_liberty"]) /\ notna(r["negative_liberty"])
    THEN (r["positive_liberty"] + r["negative_liberty"]) \div 2
    ELSE NaN

\* A variant of fill_liberty that takes the combination wherever there is
\* one.
fill_liberty_overwriting(r) ==
    IF notna(combined_liberty(r)) THEN combined_liberty(r) ELSE r["liberty"]

\* df["liberty"].fillna(df["combined_liberty"])
fill_liberty(r) ==
    IF notna(r["liberty"]) THEN r["liberty"] ELSE combined_liberty(r)

columns_to_drop ==
    {"id", "date_(yyyy-mm-dd)", "positive_liberty", "negative_liberty",
     "combined_liberty"}

\* The columns of numeric dtype of the cleaned table, date apart.
numeric_columns(table) ==
    IF table = <<>> THEN {}
    ELSE DOMAIN table[1] \cap {"elevated", "liberty", "energy"}

\* df[df[col].notna()]["date"].min(): missing (ymd(NaN)) when the column
\* holds no value.
first_non_na_date(table, col) ==
    LET held == {i \in DOMAIN table : notna(table[i][col])}
    IN  IF held = {} THEN ymd(NaN)
        ELSE table[CHOOSE i \in held :
                      \A h \in held :
                          table[i]["date"].ymd <= table[h]["date"].ymd]["date"]

\* df["date"] > first_non_na_date, on the dates as text; false of every row
\* when first_non_na_date is missing.
after_date(text, first) == notna(first.ymd) /\ text.ymd > first.ymd

\* A variant of neutral_fill that fills on every date.
neutral_fill_on_every_date(table, col, i) ==
    IF notna(table[i][col]) THEN table[i][col] ELSE FixedPoint

\* df.loc[df["date"] > first_non_na_date, col] =
\*     df.loc[df["date"] > first_non_na_date, col].fillna(1), on row i.
neutral_fill(table, col, i) ==
    IF /\ after_date(table[i]["date"], first_non_na_date(table, col))
       /\ ~notna(table[i][col])
    THEN FixedPoint ELSE table[i][col]

clean_merged_data_of(df) ==
    LET snake == [i \in DOMAIN df |-> renamed(df[i])]
        combined == [i \in DOMAIN df |->
                        [snake[i] EXCEPT !["liberty"] = fill_liberty(snake[i])]]
        dropped == [i \in DOMAIN df |->
                       [c \in DOMAIN combined[i] \ columns_to_drop |->
                           combined[i][c]]]
    IN  [i \in DOMAIN df |->
            [c \in DOMAIN dropped[i] |->
                IF c \in numeric_columns(dropped)
                THEN neutral_fill(dropped, c, i)
                ELSE IF c = "note"
                     THEN (IF dropped[i][c] = NA THEN "" ELSE dropped[i][c])
                     ELSE dropped[i][c]]]

\* A row of the merged table: a date, a note or none, liberty and its two
\* parts, and energy, each a value or none.
MergedRow(day, text, liberty, parts, energy) ==
    [c \in {"ID", "DATE (YYYY-MM-DD)", "date", "NOTE", "liberty",
            "positive liberty", "negative liberty", "energy"} |->
        CASE c = "ID" -> day
          [] c = "DATE (YYYY-MM-DD)" -> ymd(day)
          [] c = "date" -> ymd(day)
          [] c = "NOTE" -> text
          [] c = "liberty" -> liberty
          [] c = "positive liberty" -> parts[1]
          [] c = "negative liberty" -> parts[2]
          [] c = "energy" -> energy]

\* A merged table: one row per logged date, in date order.
MergedTable(days, texts, liberties, parts, energies) ==
    LET dates == sorted_days(days)
    IN  [i \in DOMAIN dates |->
            MergedRow(dates[i], texts[dates[i]], liberties[dates[i]],
                      parts[dates[i]], energies[dates[i]])]

InitClean ==
    /\ mood_pc = "merged"
    /\ main_symptoms = <<>> /\ custom_symptoms = <<>> /\ custom_entries = <<>>
    /\ timestamp_today = <<>>
    /\ \E days \in SUBSET (1..MaxDay) :
          \E texts \in [days -> {NA, "moved"}],
             liberties \in [days -> {NaN, 4000}],
             parts \in [days -> {<<1000, 3000>>, <<1000, NaN>>}],
             energies \in [days -> {NaN, 3000}] :
              combined_data =
                  MergedTable(days, texts, liberties, parts, energies)
    /\ cleaned_data = <<>>
    /\ ScoreIdle /\ DatesIdle /\ StrengthIdle /\ RunIdle /\ CallIdle
    /\ TidyIdle
    /\ copy_on_write = FALSE

\* data = self.clean_merged_data(data).  The table is changed in place and
\* returned: cleaned_data is the table after the call, combined_data stays
\* as merge_data returned it.
clean_merged_data ==
    /\ mood_pc = "merged"
    /\ cleaned_data' = clean_merged_data_of(combined_data)
    /\ mood_pc' = "cleaned"
    /\ UNCHANGED <<main_symptoms, custom_symptoms, custom_entries,
                    timestamp_today, combined_data>>
    /\ UNCHANGED outside_mood

NextClean == clean_merged_data

SpecClean == InitClean /\ [][NextClean]_vars

----------------------------------------------------------------------------
(* Properties of the cleaned table (checked under SpecClean) *)

\* The liberty of row i after the combination step: its own value, or the
\* mean of its two parts where it had none.
LibertyCombined(i) ==
    LET r == combined_data[i]
    IN  IF r["liberty"] # NaN THEN r["liberty"]
        ELSE IF r["positive liberty"] # NaN /\ r["negative liberty"] # NaN
             THEN (r["positive liberty"] + r["negative liberty"]) \div 2
             ELSE NaN

\* The value of a numeric factor on row i before the neutral fill.
Original(col, i) ==
    IF col = "liberty" THEN LibertyCombined(i) ELSE combined_data[i][col]

\* The rows on which a factor held a value before the neutral fill.
HeldRows(col) == {i \in DOMAIN combined_data : Original(col, i) # NaN}

DayOf(i) == combined_data[i]["date"].ymd

\* C22: for every numeric factor with a first non-null date f, a row dated
\* after f holds a value (1 where it had none, its own value otherwise), and
\* a row dated f or before keeps its value (none stays none).
C22_NeutralFill ==
    mood_pc = "cleaned" =>
        \A col \in {"liberty", "energy"} :
            HeldRows(col) # {} =>
                LET f == CHOOSE d \in {DayOf(h) : h \in HeldRows(col)} :
                             \A h \in HeldRows(col) : d <= DayOf(h)
                IN  \A i \in DOMAIN combined_data :
                        IF DayOf(i) > f
                        THEN cleaned_data[i][col] =
                                 (IF Original(col, i) = NaN THEN FixedPoint
                                  ELSE Original(col, i))
                        ELSE cleaned_data[i][col] = Original(col, i)

\* Energy is first logged on the second of three dates and not on the third:
\* the first date stays without a value, the third is filled with 1.
C22_Witness ==
    /\ mood_pc = "cleaned" /\ Len(combined_data) = 3
    /\ combined_data[1]["energy"] = NaN /\ combined_data[2]["energy"] = 3000
    /\ combined_data[3]["energy"] = NaN
    /\ cleaned_data[1]["energy"] = NaN /\ cleaned_data[2]["energy"] = 3000
    /\ cleaned_data[3]["energy"] = FixedPoint

\* C23: liberty is set to the mean of positive and negative liberty only on
\* the rows where liberty had no value; a row that had a liberty keeps it.
C23_LibertyFill ==
    mood_pc = "cleaned" =>
        \A i \in DOMAIN combined_data :
            LET r == combined_data[i]
            IN  /\ r["liberty"] # NaN =>
                       cleaned_data[i]["liberty"] = r["liberty"]
                /\ (/\ r["liberty"] = NaN
                    /\ r["positive liberty"] # NaN
                    /\ r["negative liberty"] # NaN)
                   => cleaned_data[i]["liberty"] =
                          (r["positive liberty"] + r["negative liberty"])
                              \div 2

\* Two rows with both parts of liberty: the one that had a liberty keeps it,
\* the one that had none gets the mean of its parts.
C23_Witness ==
    /\ mood_pc = "cleaned" /\ Len(combined_data) = 2
    /\ combined_data[1]["liberty"] = 4000 /\ combined_data[2]["liberty"] = NaN
    /\ combined_data[1]["positive liberty"] = 1000
    /\ combined_data[1]["negative liberty"] = 3000
    /\ combined_data[2]["positive liberty"] = 1000
    /\ combined_data[2]["negative liberty"] = 3000
    /\ cleaned_data[1]["liberty"] = 4000 /\ cleaned_data[2]["liberty"] = 2000

----------------------------------------------------------------------------
(* Properties of the exceptional-day override (checked under SpecScore) *)

\* The step of add_scores_to_exceptional_days.
Annotating == stage = "cleaned" /\ stage' = "annotated"

\* C24: after add_scores_to_exceptional_days the elevated of a row whose note
\* contains the text of a table entry is the override score of an entry the
\* note contains, and a row whose note contains the text of no entry keeps
\* its elevated and all its other factors.
C24_ExceptionalDayOverride ==
    [][Annotating =>
          /\ note # {} =>
                \E i \in note :
                    row'["elevated"] = exceptional_days_conditions[i]
          /\ note = {} => row' = row
          /\ \A f \in DOMAIN row : f # "elevated" => row'[f] = row[f]]_vars

\* What the code does: the override of the last entry of the list whose
\* pattern matches the note, and no change on a row no pattern matches.
C24_LastMatchingPattern ==
    [][Annotating =>
          LET matching == note \cup (matched_only \cap regex_entries)
          IN  /\ matching # {} =>
                    \E i \in matching :
                        /\ \A j \in matching : j <= i
                        /\ row'["elevated"] = exceptional_days_conditions[i]
              /\ matching = {} => row' = row
              /\ \A f \in DOMAIN row : f # "elevated" => row'[f] = row[f]]_vars

----------------------------------------------------------------------------
(* Properties of the interaction factor (checked under SpecScore) *)

Full(name) == [name |-> name, cutoff_proportion |-> 2]
Partial(name) == [name |-> name, cutoff_proportion |-> 1]

\* C25: the interaction factor is undefined on a row whose anxiety or
\* depressed is 0 or missing and defined on every other row; the
\* full-cutoff mental_health score is undefined when anxiety or depressed
\* is 0.
C25_InteractionDefinedness ==
    Scored =>
        LET unusable == {0, NaN}
            undefined == row["anxiety"] \in unusable
                         \/ row["depressed"] \in unusable
        IN  /\ undefined <=> row["anxiety_depression_interaction"] = NaN
            /\ (row["anxiety"] = 0 \/ row["depressed"] = 0)
               => Undefined(Full("mental_health"))

\* A row with anxiety 0 and depressed and elevated logged: no interaction, no
\* full-cutoff mental_health score, and a half-cutoff one.
C25_Witness ==
    /\ Scored /\ row["anxiety"] = 0 /\ row["depressed"] = 2000
    /\ row["elevated"] = 2000
    /\ row["anxiety_depression_interaction"] = NaN
    /\ Undefined(Full("mental_health"))
    /\ ~Undefined(Partial("mental_health"))

----------------------------------------------------------------------------
(* Properties of the two cutoffs (checked under SpecScore) *)

\* C26: for every category, a row whose full-cutoff score is defined has a
\* half-cutoff score, and the two are equal.
C26_FullImpliesPartial ==
    Scored =>
        \A name \in category_names :
            ~Undefined(Full(name)) =>
                /\ ~Undefined(Partial(name))
                /\ scores[Partial(name)] = scores[Full(name)]

\* A row with the four full-cutoff scores defined, hence the eight scores.
C26_Witness ==
    /\ Scored
    /\ \A name \in category_names :
          ~Undefined(Full(name)) /\ scores[Partial(name)] = scores[Full(name)]
    /\ \E name \in category_names : scores[Full(name)].num # 0

----------------------------------------------------------------------------
(* Properties of the definitions with no fixed-log factor (SpecScore) *)

\* The definitions that read none of elevated, depressed, anxiety.
CustomOnlyNames ==
    {name \in category_names :
        \A e \in Range(category(name).vars_info) :
            e.var \notin {"elevated", "depressed", "anxiety"}}

AllOnes(vars_info) ==
    \A e \in Range(vars_info) : row[e.var] = FixedPoint

\* C27: for a definition with no fixed-log factor, under both cutoffs, a row
\* is treated as degenerate, and its score undefined, exactly when all the
\* factors of the definition equal 1; among the rows that meet the cutoff
\* these are the only ones with an undefined score.
C27_VacuousFixedFactorCheck ==
    Scored =>
        /\ CustomOnlyNames = {"life_satisfaction", "work_satisfaction"}
        /\ \A c \in score_columns :
              c.name \in CustomOnlyNames =>
                  LET vars_info == category(c.name).vars_info
                  IN  /\ (uniform_data(row, vars_info) /\ Undefined(c))
                         <=> AllOnes(vars_info)
                      /\ 2 * Present(vars_info)
                             >= c.cutoff_proportion * Len(vars_info)
                         => (Undefined(c) <=> AllOnes(vars_info))

\* A row with every work_satisfaction factor at 1 and elevated logged as 2:
\* no work_satisfaction score under either cutoff.
C27_Witness ==
    /\ Scored /\ AllOnes(work_satisfaction_vars)
    /\ row["elevated"] = 2000
    /\ Undefined(Full("work_satisfaction"))
    /\ Undefined(Partial("work_satisfaction"))

----------------------------------------------------------------------------
(* Further properties of the strength metrics (checked under SpecStrength) *)

\* C28: on every output row, 0 < one_rep_max <= rolling_90d_max <=
\* cummax_one_rep_max, the three of them numbers.
C28_MetricOrdering ==
    wl_pc \in {"done", "volume"} =>
        \A i \in DOMAIN data :
            /\ data[i].one_rep_max # NaN
            /\ data[i].rolling_90d_max # NaN
            /\ data[i].cummax_one_rep_max # NaN
            /\ 0 < data[i].one_rep_max
            /\ data[i].one_rep_max <= data[i].rolling_90d_max
            /\ data[i].rolling_90d_max <= data[i].cummax_one_rep_max

\* A row of day 91 whose 90-day window has lost the heavier set of day 1
\* that its cumulative maximum still holds.
C28_Witness ==
    /\ wl_pc = "done"
    /\ \E i \in DOMAIN data :
          /\ data[i].date = 91
          /\ 0 < data[i].one_rep_max
          /\ data[i].one_rep_max = data[i].rolling_90d_max
          /\ data[i].rolling_90d_max < data[i].cummax_one_rep_max

\* The body mass of a day in the series, a series with one row per date.
BodyMassOn(day) ==
    LET hits == body_mass_rows(body_mass_by_date, day)
    IN  IF hits = {} THEN NaN
        ELSE body_mass_by_date[CHOOSE k \in hits : TRUE].body_mass

\* The one_rep_max of the i-th set of the log, computed on the set alone.
ScoreOfSet(i) ==
    one_rep_max(joined_set([exercise_data[i] EXCEPT
                               !.exercise_name = fill_name(@)],
                           BodyMassOn(exercise_data[i].date)))

PositiveSets ==
    {i \in DOMAIN exercise_data : ScoreOfSet(i) # NaN /\ ScoreOfSet(i) > 0}

\* What an output row shows of the set it comes from.
SetKey(i) ==
    <<exercise_data[i].date, fill_name(exercise_data[i].exercise_name),
      exercise_data[i].reps, ScoreOfSet(i)>>

RowKey(r) == <<r.date, r.exercise_name, r.reps, r.one_rep_max>>

C29_RepeatedSet ==
    /\ wl_pc = "done"
    /\ Len(exercise_data) = 2
    /\ exercise_data[1] = exercise_data[2]
    /\ Len(data) = 2

----------------------------------------------------------------------------
(* The eight calls of calculate_score on one table, call by call *)

\* A cell of a temporary column: a number, or missing.
cell(v) == [nan |-> FALSE, value |-> v]
missing_cell == [nan |-> TRUE, value |-> 0]

\* f"transformed_{var}" and "score_sum"
transformed_col(var) == <<"transformed_", var>>
score_sum_col == <<"score_sum", "">>

transformed_cols(vars_info) ==
    {transformed_col(vars_info[i].var) : i \in DOMAIN vars_info}

\* data[transformed_col] = data[var].apply(lambda x: transformation(x) *
\* weight if pd.notna(x) else np.nan), for every var of the definition: the
\* columns are added, or overwritten where the table holds them already.
assign_transformed(r, columns, vars_info) ==
    [n \in transformed_cols(vars_info) |->
        LET e == CHOOSE e \in Range(vars_info) : transformed_col(e.var) = n
        IN  IF notna(r[e.var])
            THEN cell(transformation(e.transformation, r[e.var]) * e.weight)
            ELSE missing_cell]
    @@ columns

\* data[transformed_col].fillna(0, inplace=True), for every var: the column
\* of the table is filled, unless the build is copy-on-write, where the
\* statement fills a copy and leaves the column as it is.
fillna_transformed(columns, vars_info, cow) ==
    [n \in DOMAIN columns |->
        IF ~cow /\ n \in transformed_cols(vars_info) /\ columns[n].nan
        THEN cell(0) ELSE columns[n]]

\* data["score_sum"] = data[[f"transformed_{var}" ...]].sum(axis=1): the sum
\* of the row's cells, missing ones skipped.
assign_score_sum(columns, vars_info) ==
    (score_sum_col :>
        cell(SumSeq([i \in DOMAIN vars_info |->
                 LET c == columns[transformed_col(vars_info[i].var)]
                 IN  IF c.nan THEN 0 ELSE c.value])))
    @@ columns

\* The value calculate_score returns for the row, read from score_sum.
score_of_columns(r, d, columns, vars_info, cutoff_proportion, rescale) ==
    LET raw == columns[score_sum_col].value
        score == IF rescale THEN rescaled(raw, vars_info)
                 ELSE number(raw, 2 * FixedPoint)
    IN  IF valid_rows(r, d, vars_info, cutoff_proportion)
        THEN score ELSE nan_score

\* A variant of drop_temporary that leaves score_sum in the table.
drop_transformed_only(columns, vars_info) ==
    [n \in DOMAIN columns \ transformed_cols(vars_info) |-> columns[n]]

\* data.drop(columns=[f"transformed_{var}" for var in vars_info] +
\* ["score_sum"], inplace=True)
drop_temporary(columns, vars_info) ==
    [n \in DOMAIN columns
              \ (transformed_cols(vars_info) \cup {score_sum_col}) |->
        columns[n]]

\* One call of calculate_score on the table: the temporary columns the table
\* holds when the call returns, and the score the call returns.  No
\* statement of the call assigns to a column of the table other than date,
\* which it converts again to the datetime it already is, the transformed_
\* columns and score_sum.
calculate_score_on_table(r, d, columns, vars_info, cutoff, rescale, cow) ==
    LET assigned == assign_transformed(r, columns, vars_info)
        filled == fillna_transformed(assigned, vars_info, cow)
        summed == assign_score_sum(filled, vars_info)
    IN  [temporary |-> drop_temporary(summed, vars_info),
         score |-> score_of_columns(r, d, summed, vars_info, cutoff,
                                    rescale)]

\* The rows the calls are followed on: the base rows, the answered row and
\* the un-filled entry with one factor missing, and the rows of a log that
\* tracks only its first columns.
CalledRows ==
    BaseRows
    \cup {[b EXCEPT ![f] = NaN] :
              b \in {UniformRow(2000), PlaceholderRow}, f \in Factors}
    \cup {UntrackedRow(k) : k \in 0..Len(factor_columns)}

\* The table of calculate_mental_health_metrics once it holds the
\* interaction column, before the first call of calculate_score.
InitOrder ==
    /\ stage = "calling"
    /\ date \in {20211201, 20211202}
    /\ note = {} /\ matched_only = {}
    /\ row \in {with_interaction(r) : r \in CalledRows}
    /\ scores = no_scores
    /\ temporary = <<>>
    /\ copy_on_write \in BOOLEAN
    /\ DatesIdle /\ StrengthIdle /\ RunIdle /\ CallIdle /\ TidyIdle
    /\ MoodIdle

\* data[<score column>] = self.calculate_score(data, ...): one of the eight
\* statements of calculate_mental_health_metrics, any one that has not run
\* yet; the order of the code is one of the orders.
calculate_score_call ==
    /\ stage = "calling"
    /\ \E c \in score_columns \ DOMAIN scores :
          LET out == calculate_score_on_table(
                         row, date, temporary, category(c.name).vars_info,
                         c.cutoff_proportion, category(c.name).rescale,
                         copy_on_write)
          IN  /\ temporary' = out.temporary
              /\ scores' = (c :> out.score) @@ scores
              /\ stage' = IF DOMAIN scores \cup {c} = score_columns
                          THEN "scored" ELSE "calling"
    /\ UNCHANGED <<date, note, matched_only, row>>
    /\ UNCHANGED outside_score

NextOrder == calculate_score_call

SpecOrder == InitOrder /\ [][NextOrder]_vars

----------------------------------------------------------------------------
(* Properties of the eight calls (checked under SpecOrder) *)

\* The row with nothing but the factors of one definition.
OwnFactors(r, vars_info) ==
    [f \in DOMAIN r |->
        IF \E i \in DOMAIN vars_info : vars_info[i].var = f
        THEN r[f] ELSE NaN]

ScoreOnItsOwn(c) ==
    calculate_score(OwnFactors(row, category(c.name).vars_info), date,
                    category(c.name).vars_info, c.cutoff_proportion,
                    category(c.name).rescale)

\* C30: a call of calculate_score changes no factor column and no score
\* column computed before it, and the table holds no temporary column once
\* the call has returned; so whatever calls have been made, in whatever
\* order, each computed score is the one that the row's date and the factors
\* of its own definition give.
C30_CallIndependence ==
    /\ [](stage \in {"calling", "scored"} =>
            /\ temporary = <<>>
            /\ \A c \in DOMAIN scores : scores[c] = ScoreOnItsOwn(c))
    /\ [][stage = "calling" =>
            /\ row' = row
            /\ \A c \in DOMAIN scores :
                  c \in DOMAIN scores' /\ scores'[c] = scores[c]]_vars

\* All eight calls made on a row of which some scores are numbers and others
\* undefined, two definitions sharing a factor among the numbers.
C30_Witness ==
    /\ stage = "scored"
    /\ DOMAIN scores = score_columns
    /\ temporary = <<>>
    /\ ~scores[[name |-> "life_satisfaction", cutoff_proportion |-> 1]].nan
    /\ ~scores[[name |-> "work_satisfaction", cutoff_proportion |-> 1]].nan
    /\ scores[[name |-> "work_satisfaction", cutoff_proportion |-> 2]].nan
    /\ \E f \in Factors : row[f] = NaN

\* The calls made in an order that is not the code's: a partial score is in
\* the table while the first score of the code's order is not.
C30_OtherOrder ==
    /\ stage = "calling"
    /\ [name |-> "work_satisfaction", cutoff_proportion |-> 1] \in DOMAIN scores
    /\ [name |-> "mental_health", cutoff_proportion |-> 2] \notin DOMAIN scores

============================================================================
